---------------------------- MODULE Spec2Model ----------------------------
(***************************************************************************)
(* A model of RIPPLe's tiered cache, ripple/data_access/cache_manager.py:  *)
(* MemoryCache (an OrderedDict used as a bounded LRU store) and            *)
(* EnhancedCacheManager (the memory tier in front of one pickle file per   *)
(* key).  Time is the value of time.time() in whole seconds.               *)
(***************************************************************************)
EXTENDS Integers, Sequences, FiniteSets, TLC

(***************************************************************************)
(* Bounds of the model.                                                    *)
(***************************************************************************)
\* largest max_size / max_memory_items a store is constructed with
MaxSize == 2
\* largest max_size of the stand-alone MemoryCache of SpecMem
MaxMemSize == 3
\* number of keys used with the stand-alone MemoryCache
NumMemKeys == 4
\* time.time() when the manager is constructed
Epoch == 10000
\* seconds that pass in one Advance step
Step == 2000
\* number of Advance steps
MaxTicks == 1
\* get calls between two clears (caps the hit/miss counters)
MaxGets == 2
\* a short ttl, elapsed after one Advance
TtlShort == 5
\* a ttl larger than time.time() at construction
TtlHuge == 13000
\* threads that call into one store at the same time
NumThreads == 2
\* calls each thread makes
MaxCalls == 2
\* keys the threads use
NumThreadKeys == 2
\* longest list of bands given to get_multi_band_cutout
MaxBands == 2
\* longest list of coordinates given to batch_get_cutouts
MaxCoords == 3
\* largest max_workers given to batch_get_cutouts
MaxWorkers == 2
\* a cache_duration_minutes shorter than the default
ShortCacheMinutes == 1
\* seconds that pass in one Tick of the monitor's clock
MonitorStep == 150
\* number of Ticks
MaxMonitorTicks == 3
\* a max_wait_minutes shorter than the default
ShortWaitMinutes == 2
\* largest max_retries given to _get_with_bbox_retry
MaxRetries == 3
\* longest list of stages of a pipeline
MaxStages == 4
\* PerformanceMonitor: most records kept, longest operation in seconds,
\* largest limit asked for
MaxMetrics == 3
MaxDuration == 3
MaxLimit == 2

(***************************************************************************)
(* Python values.                                                          *)
(***************************************************************************)
\* Python's None, which get also returns for "absent"
None == "None"
\* float('inf'), the expiry of an entry put without a ttl
Inf == -1
\* ttl = None, the default of the ttl argument: no ttl supplied
NoTtl == -2
\* bool(ttl), as "if ttl" and "ttl and ..." read it: None and 0 are false
Truthy(ttl) == ttl # NoTtl /\ ttl # 0
\* the ceiling of the in-memory ttl, in seconds
MemTtlCeiling == 3600

Payloads == {None, "x"}
Ttls == {NoTtl, TtlShort, TtlHuge}
\* the ttl values of SpecFaults: the number 0 is one of them
TtlsWithZero == Ttls \cup {0}

(***************************************************************************)
(* Cache keys: _get_cache_key.  A call is its positional tuple and its     *)
(* keyword arguments in the order the caller wrote them (a Python dict     *)
(* keeps insertion order).  Strings are sequences of tokens.               *)
(***************************************************************************)
Calls ==
  { [args |-> <<>>,  kwargs |-> << <<"a", 1>>, <<"b", 2>> >>],
    [args |-> <<>>,  kwargs |-> << <<"b", 2>>, <<"a", 1>> >>],
    [args |-> <<1>>, kwargs |-> << <<"k", 1>> >>] }

\* Python's order on the keyword names used here (str comparison)
NameOrd(n) == CASE n = "a" -> 1 [] n = "b" -> 2 [] n = "k" -> 3

RECURSIVE InsertSorted(_, _)
InsertSorted(item, s) ==
  IF s = <<>> THEN <<item>>
  ELSE IF NameOrd(item[1]) < NameOrd(Head(s)[1]) THEN <<item>> \o s
  ELSE <<Head(s)>> \o InsertSorted(item, Tail(s))

\* sorted(kwargs.items()): the (name, value) pairs in ascending name order
RECURSIVE sorted(_)
sorted(items) ==
  IF items = <<>> THEN <<>>
  ELSE InsertSorted(Head(items), sorted(Tail(items)))

RECURSIVE Join(_)
Join(parts) ==
  IF parts = <<>> THEN <<>>
  ELSE IF Len(parts) = 1 THEN Head(parts)
  ELSE Head(parts) \o <<", ">> \o Join(Tail(parts))

\* str(args) of a tuple: "()", "(1,)", "(1, 2)"
StrTuple(t) ==
  IF Len(t) = 1 THEN <<"(", t[1], ",)">>
  ELSE <<"(">> \o Join([i \in 1..Len(t) |-> <<t[i]>>]) \o <<")">>

\* str(lst) of a list of (name, value) pairs: "[('a', 1), ('b', 2)]"
StrList(l) ==
  <<"[">> \o Join([i \in 1..Len(l) |-> <<"('", l[i][1], "', ", l[i][2], ")">>])
          \o <<"]">>

\* the calls of the stand-alone store of SpecMem, and no call
MemCalls == {[args |-> <<i>>, kwargs |-> <<>>] : i \in 1..NumMemKeys}
NoCall == [args |-> <<>>, kwargs |-> <<>>]
AllCalls == Calls \cup MemCalls \cup {NoCall}

\* key_data = str(args) + str(sorted(kwargs.items()))
key_data(args, kwargs) == StrTuple(args) \o StrList(sorted(kwargs))

\* hashlib.md5(key_data.encode()).hexdigest(), taken to be free of collisions
\* on the strings hashed here: a digest is the string's place in a fixed list
\* of them
RECURSIVE Listed(_)
Listed(S) ==
  IF S = {} THEN <<>> ELSE LET x == CHOOSE y \in S : TRUE IN <<x>> \o Listed(S \ {x})
Hashed ==
  Listed({StrTuple(c.args) \o StrList(c.kwargs) : c \in AllCalls}
         \cup {key_data(c.args, c.kwargs) : c \in AllCalls})
hexdigest(str) == CHOOSE i \in 1..Len(Hashed) : Hashed[i] = str

\* _get_cache_key without the sort: the key follows the caller's kwarg order
KeyUnsorted(args, kwargs) == hexdigest(StrTuple(args) \o StrList(kwargs))

\* _get_cache_key that gives every call the key of the call without arguments
KeyOfNothing(args, kwargs) == hexdigest(key_data(<<>>, <<>>))

get_cache_key(args, kwargs) == hexdigest(key_data(args, kwargs))

\* the key of each call of the model, computed once
KeyTable == [c \in AllCalls |-> get_cache_key(c.args, c.kwargs)]
KeyOf(c) == KeyTable[c]
Keys == {KeyOf(c) : c \in Calls}

(***************************************************************************)
(* MemoryCache.  The object is a record max_size, cache, hits, misses;     *)
(* cache is the OrderedDict as the sequence of its items, oldest first,    *)
(* each item a key with its (value, expiry) pair.                          *)
(***************************************************************************)
HasKey(cache, key) == \E i \in 1..Len(cache) : cache[i].key = key
IndexOf(cache, key) == CHOOSE i \in 1..Len(cache) : cache[i].key = key
\* OrderedDict.pop(key)
Without(cache, key) ==
  LET i == IndexOf(cache, key)
  IN  SubSeq(cache, 1, i - 1) \o SubSeq(cache, i + 1, Len(cache))
\* OrderedDict.__setitem__: a key already present keeps its position
SetItem(cache, item) ==
  IF HasKey(cache, item.key)
  THEN [cache EXCEPT ![IndexOf(cache, item.key)] = item]
  ELSE Append(cache, item)

MemoryCache_init(max_size) ==
  [max_size |-> max_size, cache |-> <<>>, hits |-> 0, misses |-> 0]

\* MemoryCache.get without the move to the end: a hit does not refresh recency
MemGetNoTouch(mc, key) ==
  IF HasKey(mc.cache, key)
  THEN [mc  |-> [mc EXCEPT !.hits = @ + 1],
        ret |-> mc.cache[IndexOf(mc.cache, key)].value]
  ELSE [mc |-> [mc EXCEPT !.misses = @ + 1], ret |-> None]

MemoryCache_get(mc, key) ==
  IF HasKey(mc.cache, key)
  THEN LET item == mc.cache[IndexOf(mc.cache, key)]
       IN  [mc  |-> [mc EXCEPT !.cache = Append(Without(mc.cache, key), item),
                               !.hits = @ + 1],
            ret |-> item.value]
  ELSE [mc |-> [mc EXCEPT !.misses = @ + 1], ret |-> None]

\* MemoryCache.put that evicts only above max_size (">" for ">=")
MemPutOffByOne(mc, key, value, ttl, t) ==
  LET item  == [key |-> key, value |-> value,
                expiry |-> IF Truthy(ttl) THEN t + ttl ELSE Inf]
      after == IF Len(mc.cache) > mc.max_size THEN Tail(mc.cache) ELSE mc.cache
  IN  [mc EXCEPT !.cache = SetItem(after, item)]

MemoryCache_put(mc, key, value, ttl, t) ==
  LET item  == [key |-> key, value |-> value,
                expiry |-> IF Truthy(ttl) THEN t + ttl ELSE Inf]
      \* popitem(last=False) when len(self.cache) >= self.max_size
      after == IF Len(mc.cache) >= mc.max_size THEN Tail(mc.cache) ELSE mc.cache
  IN  [mc EXCEPT !.cache = SetItem(after, item)]

MemoryCache_clear(mc) == [mc EXCEPT !.cache = <<>>, !.hits = 0, !.misses = 0]

\* a / b of two ints, b > 0: the quotient as a fraction in lowest terms
RECURSIVE gcd(_, _)
gcd(a, b) == IF b = 0 THEN a ELSE gcd(b, a % b)
truediv(a, b) == [num |-> a \div gcd(a, b), den |-> b \div gcd(a, b)]
\* the int 0 (equal to 0 / b in Python)
IntZero == [num |-> 0, den |-> 1]

\* get_stats that reports the share of misses as hit_rate
GetStatsMissRate(mc) ==
  LET total_requests == mc.hits + mc.misses
  IN  [hits |-> mc.hits, misses |-> mc.misses, total_requests |-> total_requests,
       hit_rate |-> IF total_requests > 0 THEN truediv(mc.misses, total_requests)
                    ELSE IntZero,
       size |-> Len(mc.cache), max_size |-> mc.max_size]

get_stats(mc) ==
  LET total_requests == mc.hits + mc.misses
      hit_rate == IF total_requests > 0 THEN truediv(mc.hits, total_requests)
                  ELSE IntZero
  IN  [hits |-> mc.hits, misses |-> mc.misses, total_requests |-> total_requests,
       hit_rate |-> hit_rate, size |-> Len(mc.cache), max_size |-> mc.max_size]

(***************************************************************************)
(* Threads on one MemoryCache.  Every method body is "with self.lock:", so *)
(* a thread first acquires the RLock, then runs the statements of the body *)
(* one at a time (another thread may run between any two of them, "+= 1"   *)
(* is a load and a store), then releases it.  th is the record             *)
(*   lock      : the thread that owns self.lock, Free when none            *)
(*   pc, call  : per thread, where it is and the call it is in             *)
(*   item, n   : per thread, the local value it holds between statements   *)
(*   ret       : per thread, what its last call returned                   *)
(*   left      : per thread, the calls it still makes                      *)
(*   serial, sret : the store, and each thread's return value, had every   *)
(*               call run alone and whole at the moment it got the lock    *)
(*   completed : the get calls that returned since the last clear did      *)
(*   prev      : per thread, the call it made before the one in call       *)
(*   since     : per thread, what other threads did to the memory store    *)
(*               since this thread's latest put: "put", "evict" for a put  *)
(*               that evicted an entry, "clear_memory"                     *)
(***************************************************************************)
Threads == 1..NumThreads
ThreadCalls == {c \in MemCalls : c.args[1] <= NumThreadKeys}
\* self.lock owned by no thread
Free == 0
NoItem == [key |-> KeyOf(NoCall), value |-> None, expiry |-> Inf]
NoOp == [op |-> "none", key |-> KeyOf(NoCall), value |-> None]
\* the dict of get_stats before any of its entries is computed
NoStats == [hits |-> 0, misses |-> 0, total_requests |-> 0, hit_rate |-> IntZero,
            size |-> 0, max_size |-> 0]

ThrInit(mc) ==
  [lock |-> Free,
   pc   |-> [t \in Threads |-> "idle"],
   call |-> [t \in Threads |-> NoOp],
   item |-> [t \in Threads |-> NoItem],
   n    |-> [t \in Threads |-> 0],
   ret  |-> [t \in Threads |-> None],
   left |-> [t \in Threads |-> MaxCalls],
   serial |-> mc,
   sret |-> [t \in Threads |-> None],
   completed |-> 0,
   prev  |-> [t \in Threads |-> NoOp],
   since |-> [t \in Threads |-> {}],
   snap  |-> [t \in Threads |-> NoStats]]

\* a lock that never makes a thread wait
NeverWaits(lock, t) == TRUE

\* threading.RLock: free, or already owned by the thread that asks
CanAcquire(lock, t) == lock = Free \/ lock = t

\* "with self.lock:" entered by thread t; the call it is in takes effect on
\* the serial store here
acquire(th, t, time) ==
  LET call == th.call[t]
      g    == MemoryCache_get(th.serial, call.key)
  IN  [th EXCEPT
         !.lock = t,
         !.pc[t] = CASE call.op = "get" -> "get_test"
                     [] call.op = "put" -> "put_test"
                     [] call.op = "clear" -> "clear_cache",
         !.serial = CASE call.op = "get" -> g.mc
                      [] call.op = "put" ->
                           MemoryCache_put(th.serial, call.key, call.value, NoTtl, time)
                      [] call.op = "clear" -> MemoryCache_clear(th.serial),
         !.sret[t] = IF call.op = "get" THEN g.ret ELSE None]

\* the end of the with block, and the return
release(th, t) ==
  [th EXCEPT
     !.lock = IF th.lock = t THEN Free ELSE @,
     !.pc[t] = "idle",
     !.completed = CASE th.call[t].op = "get" -> @ + 1
                     [] th.call[t].op = "clear" -> 0
                     [] OTHER -> @]

\* one statement of MemoryCache.get by thread t
get_step(mc, th, t) ==
  LET pc  == th.pc[t]
      key == th.call[t].key
  IN  CASE pc = "get_test" ->
             [mc |-> mc,
              th |-> [th EXCEPT !.pc[t] = IF HasKey(mc.cache, key) THEN "get_pop"
                                          ELSE "get_misses_load"]]
        [] pc = "get_pop" ->
             IF HasKey(mc.cache, key)
             THEN [mc |-> [mc EXCEPT !.cache = Without(mc.cache, key)],
                   th |-> [th EXCEPT !.item[t] = mc.cache[IndexOf(mc.cache, key)],
                                     !.pc[t] = "get_set"]]
             \* self.cache.pop(key) of a key that is gone raises KeyError
             ELSE [mc |-> mc,
                   th |-> [th EXCEPT !.ret[t] = "KeyError", !.pc[t] = "release"]]
        [] pc = "get_set" ->
             [mc |-> [mc EXCEPT !.cache = SetItem(mc.cache, th.item[t])],
              th |-> [th EXCEPT !.pc[t] = "get_hits_load"]]
        [] pc = "get_hits_load" ->
             [mc |-> mc,
              th |-> [th EXCEPT !.n[t] = mc.hits, !.pc[t] = "get_hits_store"]]
        [] pc = "get_hits_store" ->
             [mc |-> [mc EXCEPT !.hits = th.n[t] + 1],
              th |-> [th EXCEPT !.ret[t] = th.item[t].value, !.pc[t] = "release"]]
        [] pc = "get_misses_load" ->
             [mc |-> mc,
              th |-> [th EXCEPT !.n[t] = mc.misses, !.pc[t] = "get_misses_store"]]
        [] pc = "get_misses_store" ->
             [mc |-> [mc EXCEPT !.misses = th.n[t] + 1],
              th |-> [th EXCEPT !.ret[t] = None, !.pc[t] = "release"]]

\* one statement of MemoryCache.put by thread t
put_step(mc, th, t, time) ==
  LET pc   == th.pc[t]
      call == th.call[t]
  IN  CASE pc = "put_test" ->
             [mc |-> mc,
              th |-> [th EXCEPT
                        !.item[t] = [key |-> call.key, value |-> call.value,
                                     expiry |-> Inf],
                        !.pc[t] = IF Len(mc.cache) >= mc.max_size THEN "put_popitem"
                                  ELSE "put_set"]]
        [] pc = "put_popitem" ->
             IF mc.cache # <<>>
             THEN [mc |-> [mc EXCEPT !.cache = Tail(mc.cache)],
                   th |-> [th EXCEPT !.pc[t] = "put_set"]]
             \* popitem of an empty OrderedDict raises KeyError
             ELSE [mc |-> mc,
                   th |-> [th EXCEPT !.ret[t] = "KeyError", !.pc[t] = "release"]]
        [] pc = "put_set" ->
             [mc |-> [mc EXCEPT !.cache = SetItem(mc.cache, th.item[t])],
              th |-> [th EXCEPT !.ret[t] = None, !.pc[t] = "release"]]

\* one statement of MemoryCache.clear by thread t
clear_step(mc, th, t) ==
  LET pc == th.pc[t]
  IN  CASE pc = "clear_cache" ->
             [mc |-> [mc EXCEPT !.cache = <<>>],
              th |-> [th EXCEPT !.pc[t] = "clear_hits"]]
        [] pc = "clear_hits" ->
             [mc |-> [mc EXCEPT !.hits = 0],
              th |-> [th EXCEPT !.pc[t] = "clear_misses"]]
        [] pc = "clear_misses" ->
             [mc |-> [mc EXCEPT !.misses = 0],
              th |-> [th EXCEPT !.ret[t] = None, !.pc[t] = "release"]]

\* one attribute read of MemoryCache.get_stats by thread t; the method has no
\* "with self.lock:", so it neither waits for the lock nor holds it
stats_step(mc, th, t) ==
  LET pc   == th.pc[t]
      snap == th.snap[t]
  IN  CASE pc = "stats_total_hits" ->
             [th EXCEPT !.n[t] = mc.hits, !.pc[t] = "stats_total_misses"]
        [] pc = "stats_total_misses" ->
             [th EXCEPT !.snap[t] = [NoStats EXCEPT !.total_requests = th.n[t] + mc.misses],
                        !.pc[t] = "stats_hit_rate"]
        [] pc = "stats_hit_rate" ->
             [th EXCEPT !.snap[t].hit_rate =
                           IF snap.total_requests > 0
                           THEN truediv(mc.hits, snap.total_requests) ELSE IntZero,
                        !.pc[t] = "stats_hits"]
        [] pc = "stats_hits" ->
             [th EXCEPT !.snap[t].hits = mc.hits, !.pc[t] = "stats_misses"]
        [] pc = "stats_misses" ->
             [th EXCEPT !.snap[t].misses = mc.misses, !.pc[t] = "stats_size"]
        [] pc = "stats_size" ->
             [th EXCEPT !.snap[t].size = Len(mc.cache),
                        !.snap[t].max_size = mc.max_size,
                        !.pc[t] = "idle"]

(***************************************************************************)
(* EnhancedCacheManager.  self is the record memory_cache, disk, stats.    *)
(* disk maps each key to the content of <cache_dir>/<key>.cache: NoFile,   *)
(* Garbage (bytes pickle.load rejects) or the pickled record.              *)
(***************************************************************************)
NoFile == [kind |-> "nofile", data |-> None, cached_at |-> 0, ttl |-> 0]
Garbage == [kind |-> "garbage", data |-> None, cached_at |-> 0, ttl |-> 0]
\* pickle.dump's output for the dict {data, cached_at, ttl}
Pickled(data, cached_at, ttl) ==
  [kind |-> "record", data |-> data, cached_at |-> cached_at, ttl |-> ttl]
\* the default expiry _save_to_disk adds when it is called without a ttl
DayDefault == 86400
\* self.disk_cache_enabled, set in __init__ and never changed
disk_cache_enabled == TRUE

IsRecord(f) == f.kind = "record"

EnhancedCacheManager_init(max_memory_items) ==
  [memory_cache |-> MemoryCache_init(max_memory_items),
   disk  |-> [k \in Keys |-> NoFile],
   stats |-> [memory_hits |-> 0, disk_hits |-> 0, misses |-> 0, evictions |-> 0]]

\* _load_from_disk that lets the exception of pickle.load reach the caller
LoadRaises(self, key, t) ==
  LET f == self.disk[key]
  IN  IF f = NoFile THEN [self |-> self, ret |-> None, raised |-> FALSE, removed |-> FALSE]
      ELSE IF f = Garbage
      THEN [self |-> self, ret |-> None, raised |-> TRUE, removed |-> FALSE]
      ELSE IF t > f.ttl
      THEN [self |-> [self EXCEPT !.disk[key] = NoFile], ret |-> None,
            raised |-> FALSE, removed |-> TRUE]
      ELSE [self |-> [self EXCEPT !.stats.disk_hits = @ + 1], ret |-> f.data,
            raised |-> FALSE, removed |-> FALSE]

\* _load_from_disk that removes a file it cannot unpickle
LoadRemovesCorrupt(self, key, t) ==
  LET f == self.disk[key]
  IN  IF f = NoFile
      THEN [self |-> self, ret |-> None, raised |-> FALSE, removed |-> FALSE]
      ELSE IF f = Garbage \/ t > f.ttl
      THEN [self |-> [self EXCEPT !.disk[key] = NoFile], ret |-> None,
            raised |-> FALSE, removed |-> TRUE]
      ELSE [self |-> [self EXCEPT !.stats.disk_hits = @ + 1], ret |-> f.data,
            raised |-> FALSE, removed |-> FALSE]

\* _load_from_disk that returns None for an expired record but keeps its file
LoadKeepsExpired(self, key, t) ==
  LET f == self.disk[key]
  IN  IF f = NoFile \/ f = Garbage \/ t > f.ttl
      THEN [self |-> self, ret |-> None, raised |-> FALSE, removed |-> FALSE]
      ELSE [self |-> [self EXCEPT !.stats.disk_hits = @ + 1], ret |-> f.data,
            raised |-> FALSE, removed |-> FALSE]

load_from_disk(self, key, t) ==
  LET f == self.disk[key]
  IN  IF ~disk_cache_enabled \/ f = NoFile
      THEN [self |-> self, ret |-> None, raised |-> FALSE, removed |-> FALSE]
      ELSE IF f = Garbage
      \* pickle.load raises; the except clause logs a warning and falls through
      THEN [self |-> self, ret |-> None, raised |-> FALSE, removed |-> FALSE]
      ELSE IF t > f.ttl
      THEN [self |-> [self EXCEPT !.disk[key] = NoFile], ret |-> None,
            raised |-> FALSE, removed |-> TRUE]
      ELSE [self |-> [self EXCEPT !.stats.disk_hits = @ + 1], ret |-> f.data,
            raised |-> FALSE, removed |-> FALSE]

\* What can go wrong in _save_to_disk: open() fails (the file is untouched), or
\* pickle.dump fails after open(path, 'wb') truncated the file.
Faults == {"ok", "open_fails", "dump_fails"}

\* _save_to_disk as the format documents it: ttl is the absolute expiry instant
SaveAbsoluteTtl(self, key, data, ttl, t, fault) ==
  [self |-> IF fault = "open_fails" THEN self
            ELSE IF fault = "dump_fails" THEN [self EXCEPT !.disk[key] = Garbage]
            ELSE [self EXCEPT !.disk[key] = Pickled(data, t, t + ttl)],
   raised |-> FALSE]

save_to_disk(self, key, data, ttl, t, fault) ==
  [self |-> IF ~disk_cache_enabled \/ fault = "open_fails" THEN self
            \* open(cache_path, 'wb') has emptied the file when pickle.dump fails
            ELSE IF fault = "dump_fails" THEN [self EXCEPT !.disk[key] = Garbage]
            ELSE [self EXCEPT !.disk[key] =
                    Pickled(data, t, IF Truthy(ttl) THEN ttl ELSE t + DayDefault)],
   \* except Exception: the error is logged and not raised again
   raised |-> FALSE]

\* The counters a get incremented, from the stats before and after it.
Counted(before, after) ==
  {c \in {"memory_hits", "disk_hits", "misses"} : after[c] # before[c]}

EnhancedCacheManager_get(self, args, kwargs, t) ==
  LET key == get_cache_key(args, kwargs)
      m   == MemoryCache_get(self.memory_cache, key)
      s1  == [self EXCEPT !.memory_cache = m.mc]
  IN  IF m.ret # None
      THEN [self |-> [s1 EXCEPT !.stats.memory_hits = @ + 1], ret |-> m.ret,
            raised |-> FALSE, removed |-> FALSE]
      ELSE LET d == load_from_disk(s1, key, t)
           IN  IF d.raised THEN d
               ELSE IF d.ret # None
               \* promote: self.memory_cache.put(key, result), no ttl
               THEN [d EXCEPT !.self.memory_cache =
                       MemoryCache_put(d.self.memory_cache, key, d.ret, NoTtl, t)]
               ELSE [d EXCEPT !.self.stats.misses = @ + 1]

\* EnhancedCacheManager.put without the one-hour ceiling on the memory ttl
PutUncapped(self, data, ttl, persist_to_disk, args, kwargs, t, fault) ==
  LET key == get_cache_key(args, kwargs)
      s1  == [self EXCEPT !.memory_cache =
                MemoryCache_put(self.memory_cache, key, data, ttl, t)]
  IN  IF persist_to_disk /\ Truthy(ttl)
      THEN save_to_disk(s1, key, data, ttl, t, fault)
      ELSE [self |-> s1, raised |-> FALSE]

EnhancedCacheManager_put(self, data, ttl, persist_to_disk, args, kwargs, t, fault) ==
  LET key == get_cache_key(args, kwargs)
      memory_ttl == IF Truthy(ttl) /\ ttl < MemTtlCeiling THEN ttl ELSE MemTtlCeiling
      s1  == [self EXCEPT !.memory_cache =
                MemoryCache_put(self.memory_cache, key, data, memory_ttl, t)]
  IN  IF persist_to_disk /\ Truthy(ttl)
      THEN save_to_disk(s1, key, data, ttl, t, fault)
      ELSE [self |-> s1, raised |-> FALSE]

clear_memory(self) ==
  [self EXCEPT !.memory_cache = MemoryCache_clear(self.memory_cache)]

get_cache_stats(self) ==
  LET total_hits       == self.stats.memory_hits + self.stats.disk_hits
      total_requests   == total_hits + self.stats.misses
      overall_hit_rate == IF total_requests > 0
                          THEN truediv(total_hits, total_requests) ELSE IntZero
  IN  [memory_cache |-> get_stats(self.memory_cache),
       disk_hits |-> self.stats.disk_hits,
       memory_hits |-> self.stats.memory_hits,
       misses |-> self.stats.misses,
       total_requests |-> total_requests,
       overall_hit_rate |-> overall_hit_rate,
       disk_cache_enabled |-> disk_cache_enabled]

\* what the other threads see of a call of thread t that turned the memory
\* store from before into after: a clear_memory, or a put and whether it
\* evicted an entry
Seen(th, t, what, before, after) ==
  LET lost   == \E i \in 1..Len(before.cache) :
                  ~HasKey(after.cache, before.cache[i].key)
      events == IF what = "put" /\ lost THEN {"put", "evict"} ELSE {what}
  IN  [u \in Threads |-> IF u = t THEN th.since[u] ELSE th.since[u] \cup events]

\* One step of thread t inside get, put or clear_memory of the manager.  The
\* manager takes no lock of its own: only the calls into the memory store
\* are atomic, and another thread may run between any two steps.
manager_step(self, th, t, time) ==
  LET pc   == th.pc[t]
      call == th.call[t]
      key  == call.key
      done == [th EXCEPT !.pc[t] = "idle"]
  IN  CASE pc = "put_memory" ->
             LET memory_ttl == IF Truthy(call.ttl) /\ call.ttl < MemTtlCeiling
                               THEN call.ttl ELSE MemTtlCeiling
                 mc == MemoryCache_put(self.memory_cache, key, call.value,
                                       memory_ttl, time)
             IN  [self |-> [self EXCEPT !.memory_cache = mc],
                  th |-> [th EXCEPT
                            !.pc[t] = IF call.persist /\ Truthy(call.ttl)
                                      THEN "put_disk" ELSE "idle",
                            !.ret[t] = None,
                            !.since = [Seen(th, t, "put", self.memory_cache, mc)
                                         EXCEPT ![t] = {}]]]
        [] pc = "put_disk" ->
             [self |-> save_to_disk(self, key, call.value, call.ttl, time, "ok").self,
              th |-> done]
        [] pc = "get_memory" ->
             LET m == MemoryCache_get(self.memory_cache, key)
             IN  [self |-> [self EXCEPT !.memory_cache = m.mc],
                  th |-> [th EXCEPT !.item[t].value = m.ret,
                                    !.pc[t] = IF m.ret # None THEN "get_memory_hits"
                                              ELSE "get_disk"]]
        [] pc = "get_memory_hits" ->
             [self |-> [self EXCEPT !.stats.memory_hits = @ + 1],
              th |-> [done EXCEPT !.ret[t] = th.item[t].value]]
        [] pc = "get_disk" ->
             LET d == load_from_disk(self, key, time)
             IN  [self |-> d.self,
                  th |-> [th EXCEPT !.item[t].value = d.ret,
                                    !.pc[t] = IF d.ret # None THEN "get_promote"
                                              ELSE "get_misses"]]
        [] pc = "get_promote" ->
             LET mc == MemoryCache_put(self.memory_cache, key, th.item[t].value,
                                       NoTtl, time)
             IN  [self |-> [self EXCEPT !.memory_cache = mc],
                  th |-> [done EXCEPT
                            !.ret[t] = th.item[t].value,
                            !.since = Seen(th, t, "put", self.memory_cache, mc)]]
        [] pc = "get_misses" ->
             [self |-> [self EXCEPT !.stats.misses = @ + 1],
              th |-> [done EXCEPT !.ret[t] = None]]
        [] pc = "clear_memory" ->
             [self |-> clear_memory(self),
              th |-> [done EXCEPT
                        !.ret[t] = None,
                        !.since = Seen(th, t, "clear_memory", self.memory_cache,
                                       clear_memory(self).memory_cache)]]

\* One step of thread t inside EnhancedCacheManager.get, with each
\* 'self.stats[name] += 1' as the two steps it is, the read of the entry and
\* the write of the sum: the manager has no lock around them.
counted_get_step(self, th, t, time) ==
  LET pc   == th.pc[t]
      key  == th.call[t].key
      done == [th EXCEPT !.pc[t] = "idle", !.completed = @ + 1]
  IN  CASE pc = "get_memory" ->
             LET m == MemoryCache_get(self.memory_cache, key)
             IN  [self |-> [self EXCEPT !.memory_cache = m.mc],
                  th |-> [th EXCEPT !.item[t].value = m.ret,
                                    !.pc[t] = IF m.ret # None THEN "load_memory_hits"
                                              ELSE "get_disk"]]
        [] pc = "load_memory_hits" ->
             [self |-> self,
              th |-> [th EXCEPT !.n[t] = self.stats.memory_hits,
                                !.pc[t] = "store_memory_hits"]]
        [] pc = "store_memory_hits" ->
             [self |-> [self EXCEPT !.stats.memory_hits = th.n[t] + 1],
              th |-> [done EXCEPT !.ret[t] = th.item[t].value]]
        [] pc = "get_disk" ->
             LET d == load_from_disk(self, key, time)
                 hit == d.self.stats # self.stats
             IN  [self |-> [d.self EXCEPT !.stats = self.stats],
                  th |-> [th EXCEPT !.item[t].value = d.ret,
                                    !.pc[t] = IF hit THEN "load_disk_hits"
                                              ELSE "load_misses"]]
        [] pc = "load_disk_hits" ->
             [self |-> self,
              th |-> [th EXCEPT !.n[t] = self.stats.disk_hits,
                                !.pc[t] = "store_disk_hits"]]
        [] pc = "store_disk_hits" ->
             [self |-> [self EXCEPT !.stats.disk_hits = th.n[t] + 1],
              th |-> [th EXCEPT !.pc[t] = IF th.item[t].value # None THEN "get_promote"
                                          ELSE "load_misses"]]
        [] pc = "get_promote" ->
             [self |-> [self EXCEPT !.memory_cache =
                          MemoryCache_put(self.memory_cache, key, th.item[t].value,
                                          NoTtl, time)],
              th |-> [done EXCEPT !.ret[t] = th.item[t].value]]
        [] pc = "load_misses" ->
             [self |-> self,
              th |-> [th EXCEPT !.n[t] = self.stats.misses, !.pc[t] = "store_misses"]]
        [] pc = "store_misses" ->
             [self |-> [self EXCEPT !.stats.misses = th.n[t] + 1],
              th |-> [done EXCEPT !.ret[t] = None]]

\* clear_all that empties the memory store and leaves the files
ClearAllKeepsFiles(self) ==
  [self EXCEPT !.memory_cache = MemoryCache_clear(self.memory_cache)]

\* glob("*.cache") and os.remove of every match
clear_all(self) ==
  [self EXCEPT !.memory_cache = MemoryCache_clear(self.memory_cache),
               !.disk = [k \in Keys |-> NoFile]]

\* every file that fails to unpickle, or whose ttl field is below the clock, goes
\* optimize_cache without the removal in its inner except clause
OptimizeKeepsCorrupt(self, t) ==
  [self EXCEPT !.disk =
     [k \in Keys |->
        IF self.disk[k] = NoFile THEN NoFile
        ELSE IF self.disk[k] = Garbage THEN Garbage
        ELSE IF t > self.disk[k].ttl THEN NoFile
        ELSE self.disk[k]]]

optimize_cache(self, t) ==
  [self EXCEPT !.disk =
     [k \in Keys |->
        IF self.disk[k] = NoFile THEN NoFile
        ELSE IF self.disk[k] = Garbage THEN NoFile
        ELSE IF t > self.disk[k].ttl THEN NoFile
        ELSE self.disk[k]]]

(***************************************************************************)
(* LsstDataFetcher, ripple/data_access/data_fetcher.py.  A fetcher is the  *)
(* two client attributes, TRUE when the attribute holds a client and FALSE *)
(* when it is None.  What the clients' calls give is the world of a call:  *)
(* the result of each test_connection and the outcome of each retrieval.   *)
(* A request is a sky coordinate (by its number) and a band; a cutout is   *)
(* the request it answers and the backend it came from.                    *)
(***************************************************************************)
SourceTypes == {"butler_repo", "butler_server", "data_folder", "other"}
Backends == {"auto", "butler", "rsp", "other"}

\* butler_client.get_cutout: a cutout, None (nothing found), or an exception
ButlerOutcomes == {"cutout", "None", "raises"}
\* the steps of _get_rsp_cutout_fallback: the first that gives nothing, or
\* where an exception is raised, or none
RspOutcomes == {"cutout", "no_images", "no_url", "no_download", "no_extract",
                "raises"}

Cutout(from, req) == [from |-> from, coord |-> req.coord, band |-> req.band]
NoCutout == [from |-> None, coord |-> 0, band |-> None]

\* __init__ and _initialize_data_client: the client of the configured source
\* type, None when its construction failed (ok = FALSE)
LsstDataFetcher_init(source_type, ok) ==
  [butler_client  |-> source_type = "butler_repo" /\ ok,
   rsp_tap_client |-> source_type = "butler_server" /\ ok]

\* every failure inside, an exception included, is logged and gives None
get_rsp_cutout_fallback(req, outcome) ==
  IF outcome = "cutout" THEN Cutout("rsp", req) ELSE NoCutout

Returned(ret, calls) ==
  [ret |-> ret, raised |-> FALSE, error |-> "", calls |-> calls]
Raised(error, calls) ==
  [ret |-> NoCutout, raised |-> TRUE, error |-> error, calls |-> calls]

\* get_cutout whose automatic selection takes a client without testing its
\* connection
GetCutoutUntested(self, req, backend, world) ==
  LET chosen == IF backend # "auto" THEN backend
                ELSE IF self.butler_client THEN "butler"
                ELSE IF self.rsp_tap_client THEN "rsp" ELSE "none"
      try_butler == chosen \in {"butler", "auto"} /\ self.butler_client
      try_rsp    == chosen \in {"rsp", "auto"} /\ self.rsp_tap_client
      butler     == IF try_butler THEN <<"butler.get_cutout">> ELSE <<>>
  IN  IF chosen = "none" THEN Raised("No working backend available", <<>>)
      ELSE IF try_butler /\ world.butler # "raises"
      THEN Returned(IF world.butler = "cutout" THEN Cutout("butler", req)
                    ELSE NoCutout, butler)
      ELSE IF try_butler /\ chosen = "butler"
      THEN Raised("Butler cutout failed", butler)
      ELSE IF try_rsp
      THEN Returned(get_rsp_cutout_fallback(req, world.rsp),
                    butler \o <<"rsp.cutout_fallback">>)
      ELSE Raised("All backends failed for cutout retrieval", butler)

\* get_cutout; every exception it raises is a DataAccessError.  calls lists
\* the calls made on the clients, in order.
get_cutout(self, req, backend, world) ==
  LET auto        == backend = "auto"
      test_butler == auto /\ self.butler_client
      butler_ok   == test_butler /\ world.butler_up
      test_rsp    == auto /\ ~butler_ok /\ self.rsp_tap_client
      rsp_ok      == test_rsp /\ world.rsp_up
      chosen      == IF ~auto THEN backend
                     ELSE IF butler_ok THEN "butler"
                     ELSE IF rsp_ok THEN "rsp" ELSE "none"
      tests       == (IF test_butler THEN <<"butler.test_connection">> ELSE <<>>)
                     \o (IF test_rsp THEN <<"rsp.test_connection">> ELSE <<>>)
      try_butler  == chosen \in {"butler", "auto"} /\ self.butler_client
      try_rsp     == chosen \in {"rsp", "auto"} /\ self.rsp_tap_client
      butler      == tests \o (IF try_butler THEN <<"butler.get_cutout">>
                                ELSE <<>>)
  IN  IF chosen = "none" THEN Raised("No working backend available", tests)
      ELSE IF try_butler /\ world.butler # "raises"
      THEN Returned(IF world.butler = "cutout" THEN Cutout("butler", req)
                    ELSE NoCutout, butler)
      ELSE IF try_butler /\ chosen = "butler"
      THEN Raised("Butler cutout failed", butler)
      ELSE IF try_rsp
      THEN Returned(get_rsp_cutout_fallback(req, world.rsp),
                    butler \o <<"rsp.cutout_fallback">>)
      ELSE Raised("All backends failed for cutout retrieval", butler)

\* get_multi_band_cutout that returns after the first band of its list
MultiBandFirstOnly(self, coord, bands, backend, worlds, i, results, attempts) ==
  IF i > Len(bands)
  THEN [ret |-> results, raised |-> FALSE, attempts |-> attempts]
  ELSE LET out == get_cutout(self, [coord |-> coord, band |-> bands[i]],
                             backend, worlds[i])
       IN  [ret |-> (bands[i] :> (IF out.raised THEN NoCutout ELSE out.ret))
                    @@ results,
            raised |-> FALSE, attempts |-> Append(attempts, bands[i])]

\* the loop of get_multi_band_cutout from the i-th band on: results is the
\* dict so far, attempts the bands get_cutout was called for
RECURSIVE multi_band_loop(_, _, _, _, _, _, _, _)
multi_band_loop(self, coord, bands, backend, worlds, i, results, attempts) ==
  IF i > Len(bands)
  THEN [ret |-> results, raised |-> FALSE, attempts |-> attempts]
  ELSE LET out == get_cutout(self, [coord |-> coord, band |-> bands[i]],
                             backend, worlds[i])
       IN  multi_band_loop(self, coord, bands, backend, worlds, i + 1,
             \* results[band] = cutout, and None in the except clause
             (bands[i] :> (IF out.raised THEN NoCutout ELSE out.ret)) @@ results,
             Append(attempts, bands[i]))

get_multi_band_cutout(self, coord, bands, backend, worlds) ==
  multi_band_loop(self, coord, bands, backend, worlds, 1, <<>>, <<>>)

\* process_coordinate, the task batch_get_cutouts submits for a coordinate:
\* get_cutout with its default backend "auto", an exception turned into an
\* error record
process_coordinate(self, coord, band, world) ==
  LET out == get_cutout(self, [coord |-> coord, band |-> band], "auto", world)
  IN  [coord |-> coord, cutout |-> out.ret,
       status |-> IF out.raised THEN "error" ELSE "success",
       error |-> out.error]

NoRecord == [coord |-> 0, cutout |-> NoCutout, status |-> None, error |-> ""]

\* a call of batch_get_cutouts: the futures of its ThreadPoolExecutor, one
\* per coordinate ("queued", "running", "done"), the record each finished
\* task returned, the results list, and where the call is ("submitted" once
\* every task is submitted, "returned" at its end)
NoBatch ==
  [phase |-> "idle", coordinates |-> <<>>, band |-> None, max_workers |-> 0,
   future |-> <<>>, record |-> <<>>, yielded |-> {}, results |-> <<>>]

\* the tasks are queued in the order of the coordinates
submit_all(coordinates, band, max_workers) ==
  [phase |-> "submitted", coordinates |-> coordinates, band |-> band,
   max_workers |-> max_workers,
   future |-> [i \in 1..Len(coordinates) |-> "queued"],
   record |-> [i \in 1..Len(coordinates) |-> NoRecord],
   yielded |-> {}, results |-> <<>>]

\* a worker thread is free and the i-th task is the first in the queue
CanStart(batch, i) ==
  /\ batch.future[i] = "queued"
  /\ \A j \in 1..(i - 1) : batch.future[j] # "queued"
  /\ Cardinality({j \in DOMAIN batch.future : batch.future[j] = "running"})
       < batch.max_workers

\* as_completed yields a finished future it has not yielded yet, and the
\* loop appends its result
collect(batch, i) ==
  [batch EXCEPT !.yielded = @ \cup {i},
                !.results = Append(@, batch.record[i])]

(***************************************************************************)
(* ServiceStatusMonitor, ripple/data_access/service_monitor.py.  Instants  *)
(* (datetime.now(), time.time()) and durations are whole seconds.  The     *)
(* elements of the tuples it returns are a bool first and then a str or a  *)
(* datetime, told apart by their type.                                     *)
(***************************************************************************)
\* the default of cache_duration_minutes
DefaultCacheMinutes == 5
\* the defaults of max_wait_minutes and check_interval_seconds
DefaultWaitMinutes == 5
DefaultCheckInterval == 30
Services == {"tap", "sia"}
\* what the service answers to the probe's request: HTTP 200 (for SIA, with
\* a JSON or XML content type), HTTP 500, or nothing within the timeout
Responses == {"200", "500", "timeout"}

Str(text) == [type |-> "str", text |-> text, at |-> 0]
Datetime(at) == [type |-> "datetime", text |-> "", at |-> at]

NoEntry == [cached |-> FALSE, status |-> FALSE, timestamp |-> 0, message |-> ""]

ServiceStatusMonitor_init(cache_duration_minutes) ==
  [cache_duration |-> cache_duration_minutes * 60,
   status_cache |-> [service \in Services |-> NoEntry]]

is_cache_valid(self, service, t) ==
  /\ service \in Services
  /\ self.status_cache[service].cached
  /\ t - self.status_cache[service].timestamp < self.cache_duration

update_cache(self, service, status, message, t) ==
  [self EXCEPT !.status_cache[service] =
     [cached |-> TRUE, status |-> status, timestamp |-> t, message |-> message]]

\* _check_tap_service and _check_sia_service: (status, message)
check_service(response) ==
  IF response = "200" THEN <<TRUE, "Service responding normally">>
  ELSE IF response = "500" THEN <<FALSE, "Internal server error">>
  ELSE <<FALSE, "Request timeout">>

\* get_service_status; probed tells whether the service was asked
get_service_status(self, service, world, t) ==
  IF is_cache_valid(self, service, t)
  THEN \* self._status_cache[service][:2] of (status, timestamp, message)
       [self |-> self, raised |-> FALSE, probed |-> FALSE,
        ret |-> <<self.status_cache[service].status,
                  Datetime(self.status_cache[service].timestamp)>>]
  ELSE IF service \notin Services
  THEN [self |-> self, raised |-> TRUE, probed |-> FALSE,
        ret |-> <<FALSE, Str("")>>]
  ELSE LET checked == check_service(world[service])
       IN  [self |-> update_cache(self, service, checked[1], checked[2], t),
            raised |-> FALSE, probed |-> TRUE,
            ret |-> <<checked[1], Str(checked[2])>>]

\* a call of wait_for_service: where it is ("idle" before the call, "loop"
\* at the test of the while loop, "done" at its return), its arguments,
\* start_time, the value returned, and whether at one of its checks a probe
\* would have found the service up (available)
NoWait ==
  [pc |-> "idle", service |-> "tap", max_wait_seconds |-> 0,
   check_interval_seconds |-> 0, start_time |-> 0, ret |-> FALSE,
   available |-> FALSE, checks |-> 0]

wait_for_service(service, max_wait_minutes, check_interval_seconds, t) ==
  [NoWait EXCEPT !.pc = "loop", !.service = service,
                 !.max_wait_seconds = max_wait_minutes * 60,
                 !.check_interval_seconds = check_interval_seconds,
                 !.start_time = t]

\* one turn of the while loop: the test, and then either the return of
\* False, or get_service_status and the return of True or the sleep
wait_step(self, wait, world, t) ==
  IF ~(t - wait.start_time < wait.max_wait_seconds)
  THEN [self |-> self, t |-> t, wait |-> [wait EXCEPT !.pc = "done",
                                                     !.ret = FALSE]]
  ELSE LET r    == get_service_status(self, wait.service, world, t)
           seen == [wait EXCEPT
                      !.checks = @ + 1,
                      !.available = @ \/ check_service(world[wait.service])[1]]
       IN  IF r.ret[1]
           THEN [self |-> r.self, t |-> t,
                 wait |-> [seen EXCEPT !.pc = "done", !.ret = TRUE]]
           ELSE [self |-> r.self, t |-> t + wait.check_interval_seconds,
                 wait |-> seen]

(***************************************************************************)
(* ButlerClient._get_with_bbox_retry, ripple/data_access/butler_client.py. *)
(* A call is the record of its loop: attempt is the loop variable, calls   *)
(* the number of butler.get calls made, slept the arguments of its         *)
(* time.sleep calls in order, outcomes what each butler.get did.           *)
(***************************************************************************)
\* butler.get returns the dataset ("ok"), raises DataIdValueError, raises an
\* exception whose text contains "not found", or raises any other exception
GetOutcomes == {"ok", "DataIdValueError", "not_found", "other"}
DatasetTypes == {"deepCoadd", "calexp"}

RECURSIVE Pow2(_)
Pow2(n) == IF n = 0 THEN 1 ELSE 2 * Pow2(n - 1)

NoRetry ==
  [phase |-> "idle", dataset_type |-> None, max_retries |-> 0, attempt |-> 0,
   calls |-> 0, slept |-> <<>>, outcomes |-> <<>>, ret |-> None]

\* the call arrives at "for attempt in range(max_retries)": an empty range
\* falls through to the end of the function, which returns None
get_with_bbox_retry(dataset_type, max_retries) ==
  [NoRetry EXCEPT !.phase = IF max_retries > 0 THEN "get" ELSE "returned",
                  !.dataset_type = dataset_type, !.max_retries = max_retries]

\* the loop body without its backoff
RetryGivesUpEarly(call, outcome) ==
  [call EXCEPT !.calls = @ + 1, !.outcomes = Append(@, outcome),
               !.phase = "returned",
               !.ret = IF outcome = "ok" THEN call.dataset_type ELSE None]

\* one pass of the loop body, up to its return or its time.sleep
retry_attempt(call, outcome) ==
  LET made == [call EXCEPT !.calls = @ + 1, !.outcomes = Append(@, outcome)]
  IN  IF outcome = "ok"
      THEN [made EXCEPT !.phase = "returned", !.ret = call.dataset_type]
      ELSE IF outcome \in {"DataIdValueError", "not_found"}
      THEN [made EXCEPT !.phase = "returned", !.ret = None]
      ELSE IF call.attempt < call.max_retries - 1
      THEN [made EXCEPT !.phase = "sleep", !.slept = Append(@, Pow2(call.attempt))]
      ELSE [made EXCEPT !.phase = "returned", !.ret = None]

\* time.sleep returns and the loop goes to its next attempt
retry_wake(call) == [call EXCEPT !.phase = "get", !.attempt = @ + 1]

(***************************************************************************)
(* DataSourceStage, ripple/pipeline/stages/data_source_stage.py.  The data *)
(* a stage takes and returns is None or a dict, of which the model keeps   *)
(* the value of its "status" key (NoStatus when it has none).              *)
(***************************************************************************)
StageSourceTypes == {"data_folder", "butler_repo", "butler_server", "unknown"}
NoStatus == "no_status"
NoneData == [kind |-> "None", status |-> NoStatus]
Dict(status) == [kind |-> "dict", status |-> status]
\* what a stage may be given: None (the first stage), or the dict of the
\* stage before it, with or without a "status"
StageInputs == {NoneData, Dict("success"), Dict(NoStatus)}
\* what rsp_tap_client.test_connection does at one attempt
ConnectionOutcomes == {"True", "False", "raises"}
\* the attempts of the connection test in execute
StageMaxRetries == 3

\* __init__: the RSP client for butler_server, the Butler client for
\* butler_repo, None when its initialisation failed (ok = FALSE: no access
\* token, no service, an exception)
DataSourceStage_init(source_type, ok) ==
  [source_type    |-> source_type,
   butler_client  |-> source_type = "butler_repo" /\ ok,
   rsp_tap_client |-> source_type = "butler_server" /\ ok]

StageReturned(data, tests) ==
  [ret |-> data, raised |-> FALSE, error |-> "", tests |-> tests]
StageRaised(error, tests) ==
  [ret |-> NoneData, raised |-> TRUE, error |-> error, tests |-> tests]

\* execute.  world: isdir tells whether params.path is a directory,
\* connection what each of the StageMaxRetries connection tests does, tables
\* whether list_available_tables returns.
DataSourceStage_execute(self, data, world) ==
  LET Up(i)  == world.connection[i] = "True"
      first  == IF \E i \in 1..StageMaxRetries : Up(i)
                THEN CHOOSE i \in 1..StageMaxRetries :
                       Up(i) /\ \A j \in 1..(i - 1) : ~Up(j)
                ELSE 0
      tests  == IF self.source_type = "butler_server" /\ self.rsp_tap_client
                THEN (IF first > 0 THEN first ELSE StageMaxRetries) ELSE 0
      out    == IF self.source_type \in {"data_folder", "butler_repo"}
                THEN (IF world.isdir THEN Dict("success") ELSE Dict("error"))
                ELSE IF self.source_type = "butler_server"
                THEN IF self.rsp_tap_client
                     \* both the try and the except after the connection
                     \* succeeded build a dict with status "success"
                     THEN (IF first > 0 THEN Dict("success") ELSE Dict("error"))
                     \* "if self.rsp_tap_client:" has no else: data is the input
                     ELSE data
                ELSE Dict("skipped")
  IN  \* data.get("status") on None raises AttributeError
      IF out = NoneData
      THEN StageRaised("AttributeError", tests)
      ELSE StageReturned(out, tests)

(***************************************************************************)
(* PipelineExecutor, ripple/pipeline/pipeline_executor.py.  A stage of the *)
(* pipeline is what its execute does: it returns a dict with a status,     *)
(* returns None, or raises.  A run is the list of stages, the calls of     *)
(* execute made (stage index and data given), in order, and whether and at *)
(* which stage an exception left the executor.                             *)
(***************************************************************************)
StageBehaviours == {"success", "error", "None", "raises"}
StageLists == UNION {[1..n -> StageBehaviours] : n \in 0..MaxStages}

\* stage.execute(data) of a stage that returns
stage_returns(behaviour) ==
  IF behaviour = "None" THEN NoneData ELSE Dict(behaviour)

NoRun == [phase |-> "idle", stages |-> <<>>, executed |-> <<>>, raised |-> FALSE,
          at |-> 0, ret |-> NoneData]

\* a loop that logs the exception of a stage and goes on with the next one
RECURSIVE ExecutorGoesOn(_, _, _, _)
ExecutorGoesOn(stages, i, data, executed) ==
  IF i > Len(stages)
  THEN [NoRun EXCEPT !.phase = "done", !.stages = stages, !.executed = executed]
  ELSE LET called == Append(executed, [stage |-> i, data |-> data])
       IN  IF stages[i] = "raises"
           THEN ExecutorGoesOn(stages, i + 1, NoneData, called)
           ELSE ExecutorGoesOn(stages, i + 1, stage_returns(stages[i]), called)

\* "for stage in self.pipeline.stages: data = stage.execute(data)" from the
\* i-th stage on; the method returns None
RECURSIVE executor_loop(_, _, _, _)
executor_loop(stages, i, data, executed) ==
  IF i > Len(stages)
  THEN [NoRun EXCEPT !.phase = "done", !.stages = stages, !.executed = executed]
  ELSE LET called == Append(executed, [stage |-> i, data |-> data])
       IN  IF stages[i] = "raises"
           THEN [NoRun EXCEPT !.phase = "done", !.stages = stages,
                              !.executed = called, !.raised = TRUE, !.at = i]
           ELSE executor_loop(stages, i + 1, stage_returns(stages[i]), called)

\* execute: data = None, then the loop
PipelineExecutor_execute(stages) == executor_loop(stages, 1, NoneData, <<>>)

StageInit(source_type, ok) ==
  [stage |-> DataSourceStage_init(source_type, ok),
   last  |-> [op |-> "init", data |-> NoneData,
              world |-> [isdir |-> FALSE,
                         connection |-> [i \in 1..StageMaxRetries |-> "False"],
                         tables |-> FALSE],
              out |-> StageReturned(NoneData, 0)],
   run   |-> NoRun]

PipelineInit == StageInit("data_folder", TRUE)
(***************************************************************************)
(* PerformanceMonitor, ripple/utils/performance_monitor.py.  metrics is    *)
(* the list of PerformanceMetric records in the order they were appended   *)
(* (id is the position, standing for the object's identity), durations in  *)
(* whole seconds; operation_counts counts the records per operation name.  *)
(* last is the last call and what it returned.                             *)
(***************************************************************************)
OperationNames == {"fetch_cutout", "query"}
Durations == 1..MaxDuration
Thresholds == 1..(MaxDuration - 1)
Limits == 0..MaxLimit

PerformanceMonitor_init ==
  [metrics |-> <<>>, operation_counts |-> [n \in OperationNames |-> 0]]

NoPerfCall == [op |-> "init", threshold |-> 0, limit |-> 0, out |-> <<>>]
PerfInit == [self |-> PerformanceMonitor_init, last |-> NoPerfCall]

\* the wrapper of track_operation after the wrapped function has run for
\* duration seconds and returned (success) or raised: the finally block
track_operation(self, operation_name, duration, success) ==
  LET metric == [id |-> Len(self.metrics) + 1, operation_name |-> operation_name,
                 duration |-> duration, success |-> success]
  IN  [metrics |-> Append(self.metrics, metric),
       operation_counts |->
         [self.operation_counts EXCEPT ![operation_name] = @ + 1]]

\* list.sort(key=lambda x: x.duration, reverse=True): stable, records of
\* equal duration keep their order
RECURSIVE sort_by_duration(_)
sort_by_duration(ops) ==
  IF ops = <<>> THEN <<>>
  ELSE LET rest == sort_by_duration(SubSeq(ops, 1, Len(ops) - 1))
           m    == ops[Len(ops)]
           k    == Cardinality({i \in 1..Len(rest) : rest[i].duration >= m.duration})
       IN  SubSeq(rest, 1, k) \o <<m>> \o SubSeq(rest, k + 1, Len(rest))

\* [m for m in ops if keep(m)], by position
RECURSIVE slow_filter(_, _)
slow_filter(ops, threshold) ==
  IF ops = <<>> THEN <<>>
  ELSE LET m == Head(ops)
       IN  (IF m.duration > threshold /\ ~m.success THEN <<m>> ELSE <<>>)
             \o slow_filter(Tail(ops), threshold)

get_slow_operations(self, threshold, limit) ==
  LET slow_ops == sort_by_duration(slow_filter(self.metrics, threshold))
  IN  SubSeq(slow_ops, 1, IF limit < Len(slow_ops) THEN limit ELSE Len(slow_ops))

(***************************************************************************)
(* The state machine.                                                      *)
(*   memory_cache, disk, stats : the manager (memory_cache alone is the    *)
(*             store of SpecMem)                                           *)
(*   now     : time.time()                                                 *)
(*   hist    : the last call and what it did: its key arguments and key,   *)
(*             the value returned, whether it raised, the counters it      *)
(*             incremented, whether it deleted the key's file; and what    *)
(*             held when it was made: whether the key was in the memory    *)
(*             store (resident), for a get the latest put for the key      *)
(*             (put), and the key arguments of the put right before it     *)
(*             (after, NoCall when the call before was no put)             *)
(*   lastPut : per key, the latest put for it: its time and arguments, how *)
(*             its disk write went (fault), whether a clear_all came after *)
(*             it and no put since (cleared),                              *)
(*             whether the key's file still is the one that put wrote      *)
(*             (written), and whether it left no record of an earlier put  *)
(*             on disk (solo); kept while a tier still holds something for *)
(*             the key                                                     *)
(*   used    : the keys in the memory store, least recently accessed (by   *)
(*             a get that found the key or by a put) first                 *)
(*   thr     : the threads inside the methods of the store (SpecThreads)   *)
(*   fetcher : an LsstDataFetcher, whether its clients' connections are up,*)
(*             its last call (SpecFetcher, SpecBands) and its call of      *)
(*             batch_get_cutouts (SpecBatch)                               *)
(*   monitor : a ServiceStatusMonitor, its clock, what each service would  *)
(*             answer to a probe, its last call (SpecMonitor) and its call *)
(*             of wait_for_service (SpecWait)                              *)
(*   retry   : a ButlerClient's call of _get_with_bbox_retry (SpecRetry)   *)
(*   pipeline: a DataSourceStage and its last execute (SpecStage), and a   *)
(*             PipelineExecutor's execute (SpecExecutor)                   *)
(*   perf    : a PerformanceMonitor's recorded operations and its last     *)
(*             call (SpecPerf)                                             *)
(***************************************************************************)
VARIABLES memory_cache, disk, stats, now, hist, lastPut, used, thr, fetcher,
          monitor, retry, pipeline, perf

vars == <<memory_cache, disk, stats, now, hist, lastPut, used, thr, fetcher,
          monitor, retry, pipeline, perf>>

Self == [memory_cache |-> memory_cache, disk |-> disk, stats |-> stats]

\* no call made yet on the butler client, the pipeline and the performance
\* monitor
RestIdle == retry = NoRetry /\ pipeline = PipelineInit /\ perf = PerfInit

NoPut == [t |-> 0, ttl |-> NoTtl, persist |-> FALSE, data |-> None,
          written |-> FALSE, solo |-> FALSE, made |-> FALSE, fault |-> "ok",
          cleared |-> FALSE]

Resident(mc) == {mc.cache[i].key : i \in 1..Len(mc.cache)}
Entry(mc, key) == mc.cache[IndexOf(mc.cache, key)]

Hist(op, call, ret, raised, counted, removed) ==
  [op |-> op, call |-> call, key |-> KeyOf(call), ret |-> ret,
   raised |-> raised, counted |-> counted, removed |-> removed,
   resident |-> HasKey(memory_cache.cache, KeyOf(call)),
   put   |-> IF op = "get" THEN lastPut[KeyOf(call)] ELSE NoPut,
   after |-> IF hist.op = "put" THEN hist.call ELSE NoCall]

Did(op) == Hist(op, NoCall, None, FALSE, {}, FALSE)

Install(self) ==
  /\ memory_cache' = self.memory_cache
  /\ disk' = self.disk
  /\ stats' = self.stats

\* a file that is gone, or replaced, no longer is the one the latest put wrote
Track(lp, self) ==
  [k \in Keys |->
     IF ~HasKey(self.memory_cache.cache, k) /\ self.disk[k] = NoFile
     THEN [NoPut EXCEPT !.cleared = lp[k].cleared]
     ELSE IF self.disk[k] # disk[k] THEN [lp[k] EXCEPT !.written = FALSE]
     ELSE lp[k]]

\* used after a call that left the store as mc: the keys no longer in it are
\* dropped, and the call's key, when the store holds it, is the latest accessed
Touch(mc, key) ==
  LET In(k)  == HasKey(mc.cache, k)
      Not(k) == k # key
      kept   == SelectSeq(used, In)
  IN  IF HasKey(mc.cache, key) THEN Append(SelectSeq(kept, Not), key) ELSE kept

\* a fetcher right after construction, both connections up, no call made yet
NoWorld == [butler_up |-> TRUE, rsp_up |-> TRUE, butler |-> "None", rsp |-> "raises"]

FetcherInit(source_type, ok) ==
  [self |-> LsstDataFetcher_init(source_type, ok),
   butler_up |-> TRUE, rsp_up |-> TRUE,
   last |-> [op |-> "init", backend |-> "auto", world |-> NoWorld,
             out |-> Returned(NoCutout, <<>>)],
   batch |-> NoBatch]

\* a monitor right after construction, its clock at Epoch, both services up
MonitorInit(cache_duration_minutes) ==
  [self |-> ServiceStatusMonitor_init(cache_duration_minutes),
   clock |-> Epoch, ticks |-> 0,
   world |-> [service \in Services |-> "200"],
   last |-> [op |-> "init", service |-> "tap", valid |-> FALSE,
             entry |-> NoEntry, raised |-> FALSE, probed |-> FALSE,
             ret |-> <<FALSE, Str("")>>],
   wait |-> NoWait]

Init ==
  /\ \E n \in 1..MaxSize :
       LET self == EnhancedCacheManager_init(n)
       IN  /\ memory_cache = self.memory_cache
           /\ disk = self.disk
           /\ stats = self.stats
  /\ now = Epoch
  /\ hist = [op |-> "init", call |-> NoCall, key |-> KeyOf(NoCall),
             ret |-> None, raised |-> FALSE, counted |-> {}, removed |-> FALSE,
             resident |-> FALSE, put |-> NoPut, after |-> NoCall]
  /\ lastPut = [k \in Keys |-> NoPut]
  /\ used = <<>>
  /\ thr = ThrInit(memory_cache)
  /\ fetcher = FetcherInit("data_folder", TRUE)
  /\ monitor = MonitorInit(DefaultCacheMinutes)
  /\ RestIdle

Get(c) ==
  /\ stats.memory_hits + stats.disk_hits + stats.misses < MaxGets
  /\ LET r == EnhancedCacheManager_get(Self, c.args, c.kwargs, now)
     IN  /\ Install(r.self)
         /\ hist' = Hist("get", c, r.ret, r.raised, Counted(stats, r.self.stats),
                         r.removed)
         /\ lastPut' = Track(lastPut, r.self)
         /\ used' = Touch(r.self.memory_cache, KeyOf(c))
  /\ UNCHANGED <<now, thr, fetcher, monitor, retry, pipeline, perf>>

Put(c, data, ttl, persist, fault) ==
  /\ fault # "ok" => persist /\ Truthy(ttl)
  /\ LET r == EnhancedCacheManager_put(Self, data, ttl, persist, c.args,
                                       c.kwargs, now, fault)
         self == r.self
         wrote == persist /\ Truthy(ttl) /\ fault = "ok" /\ disk_cache_enabled
     IN  /\ Install(self)
         /\ lastPut' = [Track(lastPut, self) EXCEPT ![KeyOf(c)] =
                          [t |-> now, ttl |-> ttl, persist |-> persist,
                           data |-> data, written |-> wrote,
                           solo |-> wrote \/ disk[KeyOf(c)].kind # "record",
                           made |-> TRUE, fault |-> fault, cleared |-> FALSE]]
         /\ used' = Touch(self.memory_cache, KeyOf(c))
         /\ hist' = Hist("put", c, None, r.raised, {}, FALSE)
  /\ UNCHANGED <<now, thr, fetcher, monitor, retry, pipeline, perf>>

ClearMemory ==
  /\ Install(clear_memory(Self))
  /\ hist' = Did("clear_memory")
  /\ lastPut' = Track(lastPut, clear_memory(Self))
  /\ used' = <<>>
  /\ UNCHANGED <<now, thr, fetcher, monitor, retry, pipeline, perf>>

ClearAll ==
  /\ Install(clear_all(Self))
  /\ hist' = Did("clear_all")
  /\ lastPut' = [k \in Keys |->
                  [Track(lastPut, clear_all(Self))[k] EXCEPT
                     !.cleared = lastPut[k].made \/ lastPut[k].cleared]]
  /\ used' = <<>>
  /\ UNCHANGED <<now, thr, fetcher, monitor, retry, pipeline, perf>>

Optimize ==
  /\ Install(optimize_cache(Self, now))
  /\ hist' = Did("optimize_cache")
  /\ lastPut' = Track(lastPut, optimize_cache(Self, now))
  /\ UNCHANGED <<now, used, thr, fetcher, monitor, retry, pipeline, perf>>

\* something outside the manager overwrites a key's file with garbage bytes
Corrupt(k) ==
  /\ disk[k] # Garbage
  /\ disk' = [disk EXCEPT ![k] = Garbage]
  /\ lastPut' = [lastPut EXCEPT ![k].written = FALSE]
  /\ hist' = Did("corrupt")
  /\ UNCHANGED <<memory_cache, stats, now, used, thr, fetcher, monitor, retry, pipeline, perf>>

\* the clock moves on between two calls
Advance ==
  /\ now < Epoch + MaxTicks * Step
  /\ now' = now + Step
  /\ hist' = Did("sleep")
  /\ UNCHANGED <<memory_cache, disk, stats, lastPut, used, thr, fetcher, monitor, retry, pipeline, perf>>

\* Spec: get, put and clear_memory on one key, with every payload and ttl,
\* while the clock moves and the key's file may be overwritten from outside
OneKey == {c \in Calls : c.args # <<>>}

Next ==
  \/ \E c \in OneKey : Get(c)
  \/ \E c \in OneKey, data \in Payloads, ttl \in Ttls, persist \in BOOLEAN :
       Put(c, data, ttl, persist, "ok")
  \/ ClearMemory
  \/ \E c \in OneKey : Corrupt(KeyOf(c))
  \/ Advance

Spec == Init /\ [][Next]_vars

\* SpecKeys: two keys, one of them written with its keyword arguments in
\* either order; one payload, and a ttl that keeps the disk record readable
NextKeys ==
  \/ \E c \in Calls : Get(c)
  \/ \E c \in Calls, ttl \in {NoTtl, TtlHuge}, persist \in BOOLEAN :
       Put(c, "x", ttl, persist, "ok")
  \/ ClearMemory

SpecKeys == Init /\ [][NextKeys]_vars

\* SpecFaults: one key, puts whose disk write may fail: open() fails for any
\* payload, pickle.dump for a payload that cannot be pickled (never None)
NextFaults ==
  \/ \E c \in OneKey : Get(c)
  \/ \E c \in OneKey, data \in Payloads, ttl \in TtlsWithZero, persist \in BOOLEAN :
       \E fault \in IF data = None THEN Faults \ {"dump_fails"} ELSE Faults :
         Put(c, data, ttl, persist, fault)
  \/ ClearMemory

SpecFaults == Init /\ [][NextFaults]_vars

\* SpecOptimize: two keys and one payload, persisted puts and optimize_cache
\* while the clock moves
TwoKeys == {c \in Calls : c.args # <<>> \/ c.kwargs[1][1] = "a"}

NextOptimize ==
  \/ \E c \in TwoKeys : Get(c)
  \/ \E c \in TwoKeys, ttl \in Ttls \ {NoTtl} : Put(c, "x", ttl, TRUE, "ok")
  \/ ClearMemory
  \/ Optimize
  \/ Advance

SpecOptimize == Init /\ [][NextOptimize]_vars

\* SpecClear: two keys and one payload, with clear_memory and clear_all
NextClear ==
  \/ \E c \in TwoKeys : Get(c)
  \/ \E c \in TwoKeys, ttl \in Ttls \ {NoTtl}, persist \in BOOLEAN :
       Put(c, "x", ttl, persist, "ok")
  \/ ClearMemory
  \/ ClearAll
  \/ Optimize

SpecClear == Init /\ [][NextClear]_vars

\* SpecPromote: a manager with room for up to MaxMemSize entries; one key is
\* put with a disk record and read back, the keys of MemCalls are put in
\* memory only (ttl = None writes no file)
InitPromote ==
  /\ \E n \in 1..MaxMemSize :
       LET self == EnhancedCacheManager_init(n)
       IN  /\ memory_cache = self.memory_cache
           /\ disk = self.disk
           /\ stats = self.stats
  /\ now = Epoch
  /\ hist = [op |-> "init", call |-> NoCall, key |-> KeyOf(NoCall),
             ret |-> None, raised |-> FALSE, counted |-> {}, removed |-> FALSE,
             resident |-> FALSE, put |-> NoPut, after |-> NoCall]
  /\ lastPut = [k \in Keys |-> NoPut]
  /\ used = <<>>
  /\ thr = ThrInit(memory_cache)
  /\ fetcher = FetcherInit("data_folder", TRUE)
  /\ monitor = MonitorInit(DefaultCacheMinutes)
  /\ RestIdle

PutMemoryOnly(c) ==
  /\ LET r == EnhancedCacheManager_put(Self, "x", NoTtl, TRUE, c.args, c.kwargs,
                                       now, "ok")
     IN  /\ Install(r.self)
         /\ used' = Touch(r.self.memory_cache, KeyOf(c))
         /\ hist' = Hist("put", c, None, r.raised, {}, FALSE)
  /\ UNCHANGED <<now, lastPut, thr, fetcher, monitor, retry, pipeline, perf>>

NextPromote ==
  \/ \E c \in OneKey : Get(c)
  \/ \E c \in OneKey : Put(c, "x", TtlHuge, TRUE, "ok")
  \/ \E c \in MemCalls : PutMemoryOnly(c)
  \/ ClearMemory

SpecPromote == InitPromote /\ [][NextPromote]_vars

\* SpecCorrupt: two keys whose files may be overwritten from outside, with
\* every call of the manager, at one instant
NextCorrupt ==
  \/ \E c \in TwoKeys : Get(c)
  \/ \E c \in TwoKeys, persist \in BOOLEAN : Put(c, "x", TtlHuge, persist, "ok")
  \/ \E c \in TwoKeys : Corrupt(KeyOf(c))
  \/ ClearMemory
  \/ ClearAll
  \/ Optimize

SpecCorrupt == Init /\ [][NextCorrupt]_vars

(***************************************************************************)
(* SpecMem: a MemoryCache used on its own, get, put and clear called on it *)
(* directly.                                                               *)
(***************************************************************************)
InitMem ==
  /\ \E n \in 1..MaxMemSize : memory_cache = MemoryCache_init(n)
  /\ disk = [k \in Keys |-> NoFile]
  /\ stats = EnhancedCacheManager_init(1).stats
  /\ now = Epoch
  /\ hist = [op |-> "init", call |-> NoCall, key |-> KeyOf(NoCall),
             ret |-> None, raised |-> FALSE, counted |-> {}, removed |-> FALSE,
             resident |-> FALSE, put |-> NoPut, after |-> NoCall]
  /\ lastPut = [k \in Keys |-> NoPut]
  /\ used = <<>>
  /\ thr = ThrInit(memory_cache)
  /\ fetcher = FetcherInit("data_folder", TRUE)
  /\ monitor = MonitorInit(DefaultCacheMinutes)
  /\ RestIdle

MemGet(c) ==
  /\ memory_cache.hits + memory_cache.misses < MaxGets
  /\ LET r == MemoryCache_get(memory_cache, KeyOf(c))
     IN  /\ memory_cache' = r.mc
         /\ hist' = Hist("MemoryCache.get", c, r.ret, FALSE,
                         IF r.mc.hits # memory_cache.hits THEN {"hits"}
                         ELSE {"misses"}, FALSE)
         /\ used' = Touch(r.mc, KeyOf(c))
  /\ UNCHANGED <<disk, stats, now, lastPut, thr, fetcher, monitor, retry, pipeline, perf>>

MemPut(c, value, ttl) ==
  /\ LET mc == MemoryCache_put(memory_cache, KeyOf(c), value, ttl, now)
     IN  /\ memory_cache' = mc
         /\ used' = Touch(mc, KeyOf(c))
  /\ hist' = Hist("MemoryCache.put", c, None, FALSE, {}, FALSE)
  /\ UNCHANGED <<disk, stats, now, lastPut, thr, fetcher, monitor, retry, pipeline, perf>>

MemClear ==
  /\ memory_cache' = MemoryCache_clear(memory_cache)
  /\ hist' = Did("MemoryCache.clear")
  /\ used' = <<>>
  /\ UNCHANGED <<disk, stats, now, lastPut, thr, fetcher, monitor, retry, pipeline, perf>>

NextMem ==
  \/ \E c \in MemCalls : MemGet(c)
  \/ \E c \in MemCalls, value \in {"x", "y"}, ttl \in {NoTtl, TtlShort} :
       MemPut(c, value, ttl)
  \/ MemClear

SpecMem == InitMem /\ [][NextMem]_vars

(***************************************************************************)
(* SpecThreads: NumThreads threads call get, put and clear on one          *)
(* MemoryCache, their statements interleaved in every order the lock       *)
(* allows.                                                                 *)
(***************************************************************************)
ThreadCall(t, op, c) ==
  /\ thr.pc[t] = "idle" /\ thr.left[t] > 0
  /\ thr' = [thr EXCEPT !.pc[t] = "acquire",
                        !.call[t] = [op |-> op, key |-> KeyOf(c), value |-> "x"],
                        !.left[t] = @ - 1]
  /\ UNCHANGED <<memory_cache, disk, stats, now, hist, lastPut, used, fetcher, monitor, retry, pipeline, perf>>

Acquire(t) ==
  /\ thr.pc[t] = "acquire"
  /\ CanAcquire(thr.lock, t)
  /\ thr' = acquire(thr, t, now)
  /\ UNCHANGED <<memory_cache, disk, stats, now, hist, lastPut, used, fetcher, monitor, retry, pipeline, perf>>

Statement(t) ==
  /\ thr.pc[t] \notin {"idle", "acquire", "release"}
  /\ thr.call[t].op \in {"get", "put", "clear"}
  /\ LET r == CASE thr.call[t].op = "get" -> get_step(memory_cache, thr, t)
                 [] thr.call[t].op = "put" -> put_step(memory_cache, thr, t, now)
                 [] thr.call[t].op = "clear" -> clear_step(memory_cache, thr, t)
     IN  memory_cache' = r.mc /\ thr' = r.th
  /\ UNCHANGED <<disk, stats, now, hist, lastPut, used, fetcher, monitor, retry, pipeline, perf>>

Release(t) ==
  /\ thr.pc[t] = "release"
  /\ thr' = release(thr, t)
  /\ UNCHANGED <<memory_cache, disk, stats, now, hist, lastPut, used, fetcher, monitor, retry, pipeline, perf>>

NextThreads ==
  \/ \E t \in Threads, op \in {"get", "put", "clear"}, c \in ThreadCalls :
       ThreadCall(t, op, c)
  \/ \E t \in Threads : Acquire(t)
  \/ \E t \in Threads : Statement(t)
  \/ \E t \in Threads : Release(t)

SpecThreads == InitMem /\ [][NextThreads]_vars

(***************************************************************************)
(* SpecStats: threads call get and put on one MemoryCache while a thread   *)
(* calls get_stats, which reads the attributes one at a time.              *)
(***************************************************************************)
GetStatsCall(t) ==
  /\ thr.pc[t] = "idle" /\ thr.left[t] > 0
  /\ thr' = [thr EXCEPT !.pc[t] = "stats_total_hits",
                        !.call[t] = [NoOp EXCEPT !.op = "get_stats"],
                        !.snap[t] = NoStats,
                        !.left[t] = @ - 1]
  /\ UNCHANGED <<memory_cache, disk, stats, now, hist, lastPut, used, fetcher, monitor, retry, pipeline, perf>>

GetStatsStep(t) ==
  /\ thr.pc[t] # "idle" /\ thr.call[t].op = "get_stats"
  /\ thr' = stats_step(memory_cache, thr, t)
  /\ UNCHANGED <<memory_cache, disk, stats, now, hist, lastPut, used, fetcher, monitor, retry, pipeline, perf>>

NextStats ==
  \/ \E t \in Threads, op \in {"get", "put"}, c \in ThreadCalls :
       ThreadCall(t, op, c)
  \/ \E t \in Threads : Acquire(t)
  \/ \E t \in Threads : Statement(t)
  \/ \E t \in Threads : Release(t)
  \/ \E t \in Threads : GetStatsCall(t)
  \/ \E t \in Threads : GetStatsStep(t)

SpecStats == InitMem /\ [][NextStats]_vars

(***************************************************************************)
(* SpecManagerThreads: thread 1 calls put and get for one key of the       *)
(* manager while the other threads call put for another key, and           *)
(* clear_memory.                                                           *)
(***************************************************************************)
OtherKey == TwoKeys \ OneKey

ManagerCall(t, call) ==
  /\ thr.pc[t] = "idle" /\ thr.left[t] > 0
  /\ thr' = [thr EXCEPT !.pc[t] = IF call.op = "put" THEN "put_memory"
                                  ELSE IF call.op = "get" THEN "get_memory"
                                  ELSE "clear_memory",
                        !.call[t] = call,
                        !.prev[t] = thr.call[t],
                        !.left[t] = @ - 1]
  /\ UNCHANGED <<memory_cache, disk, stats, now, hist, lastPut, used, fetcher, monitor, retry, pipeline, perf>>

ManagerStep(t) ==
  /\ thr.pc[t] # "idle"
  /\ LET r == manager_step(Self, thr, t, now)
     IN  Install(r.self) /\ thr' = r.th
  /\ UNCHANGED <<now, hist, lastPut, used, fetcher, monitor, retry, pipeline, perf>>

CallsOf(t) ==
  LET mine == IF t = 1 THEN OneKey ELSE OtherKey
      data == IF t = 1 THEN "x" ELSE "y"
  IN  {[op |-> "put", key |-> KeyOf(c), value |-> data, ttl |-> ttl,
        persist |-> persist] : c \in mine, ttl \in Ttls, persist \in BOOLEAN}
      \cup {[op |-> "get", key |-> KeyOf(c), value |-> None, ttl |-> NoTtl,
              persist |-> FALSE] : c \in mine}
      \cup IF t = 1 THEN {}
           ELSE {[op |-> "clear_memory", key |-> KeyOf(NoCall), value |-> None,
                  ttl |-> NoTtl, persist |-> FALSE]}

NextManagerThreads ==
  \/ \E t \in Threads : \E call \in CallsOf(t) : ManagerCall(t, call)
  \/ \E t \in Threads : ManagerStep(t)

SpecManagerThreads == Init /\ [][NextManagerThreads]_vars

(***************************************************************************)
(* SpecCounters: the threads call get on one manager, for a key that one   *)
(* of them also puts; completed counts the get calls that have returned.   *)
(***************************************************************************)
CountedCalls(t) ==
  {[op |-> "get", key |-> KeyOf(c), value |-> None, ttl |-> NoTtl,
    persist |-> FALSE] : c \in OneKey}
  \cup IF t # 1 THEN {}
       ELSE {[op |-> "put", key |-> KeyOf(c), value |-> "x", ttl |-> TtlHuge,
              persist |-> TRUE] : c \in OneKey}
            \cup {[op |-> "clear_memory", key |-> KeyOf(NoCall), value |-> None,
                   ttl |-> NoTtl, persist |-> FALSE]}

CountedStep(t) ==
  /\ thr.pc[t] # "idle"
  /\ LET r == IF thr.call[t].op = "get" THEN counted_get_step(Self, thr, t, now)
              ELSE manager_step(Self, thr, t, now)
     IN  Install(r.self) /\ thr' = r.th
  /\ UNCHANGED <<now, hist, lastPut, used, fetcher, monitor, retry, pipeline, perf>>

NextCounters ==
  \/ \E t \in Threads : \E call \in CountedCalls(t) : ManagerCall(t, call)
  \/ \E t \in Threads : CountedStep(t)

SpecCounters == Init /\ [][NextCounters]_vars

(***************************************************************************)
(* SpecWriters: the threads put for one key, each its own value, with a    *)
(* disk record, and get it back.                                           *)
(***************************************************************************)
WriterCalls(t) ==
  {[op |-> "put", key |-> KeyOf(c), value |-> IF t = 1 THEN "x" ELSE "y",
    ttl |-> TtlHuge, persist |-> TRUE] : c \in OneKey}
  \cup {[op |-> "get", key |-> KeyOf(c), value |-> None, ttl |-> NoTtl,
         persist |-> FALSE] : c \in OneKey}

NextWriters ==
  \/ \E t \in Threads : \E call \in WriterCalls(t) : ManagerCall(t, call)
  \/ \E t \in Threads : ManagerStep(t)

SpecWriters == Init /\ [][NextWriters]_vars

(***************************************************************************)
(* SpecRetry: calls of _get_with_bbox_retry with every max_retries up to   *)
(* MaxRetries, butler.get doing whatever it may do at each attempt.        *)
(***************************************************************************)
OnlyButler ==
  UNCHANGED <<memory_cache, disk, stats, now, hist, lastPut, used, thr, fetcher,
              monitor, pipeline, perf>>

GetWithBboxRetry(dataset_type, max_retries) ==
  /\ retry.phase \in {"idle", "returned"}
  /\ retry' = get_with_bbox_retry(dataset_type, max_retries)
  /\ OnlyButler

RetryAttempt(outcome) ==
  /\ retry.phase = "get"
  /\ retry' = retry_attempt(retry, outcome)
  /\ OnlyButler

RetryWake ==
  /\ retry.phase = "sleep"
  /\ retry' = retry_wake(retry)
  /\ OnlyButler

NextRetry ==
  \/ \E dataset_type \in DatasetTypes, max_retries \in 0..MaxRetries :
       GetWithBboxRetry(dataset_type, max_retries)
  \/ \E outcome \in GetOutcomes : RetryAttempt(outcome)
  \/ RetryWake

\* butler.get and time.sleep return in the end
SpecRetry ==
  /\ Init /\ [][NextRetry]_vars
  /\ WF_vars(\E outcome \in GetOutcomes : RetryAttempt(outcome))
  /\ WF_vars(RetryWake)

(***************************************************************************)
(* SpecStage: a DataSourceStage of every source type, with or without its  *)
(* client, executed with every input.                                      *)
(***************************************************************************)
OnlyPipeline ==
  UNCHANGED <<memory_cache, disk, stats, now, hist, lastPut, used, thr, fetcher,
              monitor, retry, perf>>

InitStage ==
  /\ memory_cache = MemoryCache_init(1)
  /\ disk = [k \in Keys |-> NoFile]
  /\ stats = EnhancedCacheManager_init(1).stats
  /\ now = Epoch
  /\ hist = [op |-> "init", call |-> NoCall, key |-> KeyOf(NoCall),
             ret |-> None, raised |-> FALSE, counted |-> {}, removed |-> FALSE,
             resident |-> FALSE, put |-> NoPut, after |-> NoCall]
  /\ lastPut = [k \in Keys |-> NoPut]
  /\ used = <<>>
  /\ thr = ThrInit(memory_cache)
  /\ fetcher = FetcherInit("data_folder", TRUE)
  /\ monitor = MonitorInit(DefaultCacheMinutes)
  /\ retry = NoRetry /\ perf = PerfInit
  /\ \E source_type \in StageSourceTypes, ok \in BOOLEAN :
       pipeline = StageInit(source_type, ok)

StageExecute(data, world) ==
  /\ pipeline' = [pipeline EXCEPT !.last =
                     [op |-> "execute", data |-> data, world |-> world,
                      out |-> DataSourceStage_execute(pipeline.stage, data, world)]]
  /\ OnlyPipeline

NextStage ==
  \E data \in StageInputs, isdir \in BOOLEAN, tables \in BOOLEAN,
     connection \in [1..StageMaxRetries -> ConnectionOutcomes] :
    StageExecute(data, [isdir |-> isdir, connection |-> connection,
                        tables |-> tables])

SpecStage == InitStage /\ [][NextStage]_vars

\* SpecExecutor: a PipelineExecutor run on every list of at most MaxStages
\* stages
ExecutorExecute(stages) ==
  /\ pipeline' = [pipeline EXCEPT !.run = PipelineExecutor_execute(stages)]
  /\ OnlyPipeline

NextExecutor == \E stages \in StageLists : ExecutorExecute(stages)

SpecExecutor == InitStage /\ [][NextExecutor]_vars

\* SpecPerf: one PerformanceMonitor; tracked operations end, successfully or
\* not, after 1..MaxDuration seconds, and get_slow_operations is called
OnlyPerf ==
  UNCHANGED <<memory_cache, disk, stats, now, hist, lastPut, used, thr, fetcher,
              monitor, retry, pipeline>>

TrackOperation(operation_name, duration, success) ==
  /\ Len(perf.self.metrics) < MaxMetrics
  /\ perf' = [self |-> track_operation(perf.self, operation_name, duration, success),
              last |-> [NoPerfCall EXCEPT !.op = "track_operation"]]
  /\ OnlyPerf

GetSlowOperations(threshold, limit) ==
  /\ perf' = [perf EXCEPT !.last =
                [op |-> "get_slow_operations", threshold |-> threshold,
                 limit |-> limit,
                 out |-> get_slow_operations(perf.self, threshold, limit)]]
  /\ OnlyPerf

NextPerf ==
  \/ \E operation_name \in OperationNames, duration \in Durations,
        success \in BOOLEAN : TrackOperation(operation_name, duration, success)
  \/ \E threshold \in Thresholds, limit \in Limits :
        GetSlowOperations(threshold, limit)

SpecPerf == Init /\ [][NextPerf]_vars

\* SpecFetcher: an LsstDataFetcher of every source type whose clients'
\* connections come and go between its calls
Bands == {"g", "r"}
Requests == [coord : {1}, band : Bands]

InitFetcher ==
  /\ memory_cache = MemoryCache_init(1)
  /\ disk = [k \in Keys |-> NoFile]
  /\ stats = EnhancedCacheManager_init(1).stats
  /\ now = Epoch
  /\ hist = [op |-> "init", call |-> NoCall, key |-> KeyOf(NoCall),
             ret |-> None, raised |-> FALSE, counted |-> {}, removed |-> FALSE,
             resident |-> FALSE, put |-> NoPut, after |-> NoCall]
  /\ lastPut = [k \in Keys |-> NoPut]
  /\ used = <<>>
  /\ thr = ThrInit(memory_cache)
  /\ \E source_type \in SourceTypes, ok \in BOOLEAN :
       fetcher = FetcherInit(source_type, ok)
  /\ monitor = MonitorInit(DefaultCacheMinutes)
  /\ RestIdle

CacheUntouched ==
  UNCHANGED <<memory_cache, disk, stats, now, hist, lastPut, used, thr, monitor,
              retry, pipeline, perf>>

\* a connection is lost or comes back
Connection(butler_up, rsp_up) ==
  /\ <<butler_up, rsp_up>> # <<fetcher.butler_up, fetcher.rsp_up>>
  /\ fetcher' = [fetcher EXCEPT !.butler_up = butler_up, !.rsp_up = rsp_up]
  /\ CacheUntouched

GetCutout(req, backend, butler, rsp) ==
  LET world == [butler_up |-> fetcher.butler_up, rsp_up |-> fetcher.rsp_up,
                butler |-> butler, rsp |-> rsp]
  IN  /\ fetcher' = [fetcher EXCEPT !.last =
                       [op |-> "get_cutout", backend |-> backend,
                        world |-> world,
                        out |-> get_cutout(fetcher.self, req, backend, world)]]
      /\ CacheUntouched

NextFetcher ==
  \/ \E butler_up, rsp_up \in BOOLEAN : Connection(butler_up, rsp_up)
  \/ \E req \in Requests, backend \in Backends,
        butler \in ButlerOutcomes, rsp \in RspOutcomes :
       GetCutout(req, backend, butler, rsp)

SpecFetcher == InitFetcher /\ [][NextFetcher]_vars

\* SpecFallback: as SpecFetcher, and the code that owns the fetcher may give
\* it the client its constructor did not make (butler_client and
\* rsp_tap_client are plain attributes; the constructor sets at most one)
AttachClient(client) ==
  /\ ~fetcher.self[client]
  /\ fetcher' = [fetcher EXCEPT !.self[client] = TRUE,
                                !.last = FetcherInit("data_folder", TRUE).last]
  /\ CacheUntouched

NextFallback ==
  \/ \E butler_up, rsp_up \in BOOLEAN : Connection(butler_up, rsp_up)
  \/ \E req \in Requests, backend \in Backends,
        butler \in ButlerOutcomes, rsp \in RspOutcomes :
       GetCutout(req, backend, butler, rsp)
  \/ \E client \in {"butler_client", "rsp_tap_client"} : AttachClient(client)

SpecFallback == InitFetcher /\ [][NextFallback]_vars

\* SpecBands: get_multi_band_cutout for every list of at most MaxBands
\* bands, a band twice included, each band with its own retrieval outcome
BandLists == UNION {[1..n -> Bands] : n \in 0..MaxBands}
\* a band is found, or is not there, or its retrieval fails, whatever the
\* backend asked
BandOutcomes == {[butler |-> "cutout", rsp |-> "cutout"],
                 [butler |-> "None", rsp |-> "no_images"],
                 [butler |-> "raises", rsp |-> "raises"]}

GetMultiBandCutout(bands, backend, outcomes) ==
  LET worlds == [i \in 1..Len(bands) |->
                   [butler_up |-> fetcher.butler_up, rsp_up |-> fetcher.rsp_up,
                    butler |-> outcomes[i].butler, rsp |-> outcomes[i].rsp]]
  IN  /\ fetcher' = [fetcher EXCEPT !.last =
                       [op |-> "get_multi_band_cutout", backend |-> backend,
                        bands |-> bands, worlds |-> worlds,
                        out |-> get_multi_band_cutout(fetcher.self, 1, bands,
                                                      backend, worlds)]]
      /\ CacheUntouched

NextBands ==
  \/ \E butler_up, rsp_up \in BOOLEAN : Connection(butler_up, rsp_up)
  \/ \E bands \in BandLists, backend \in Backends :
       \E outcomes \in [1..Len(bands) -> BandOutcomes] :
         GetMultiBandCutout(bands, backend, outcomes)

SpecBands == InitFetcher /\ [][NextBands]_vars

\* SpecBatch: one call of batch_get_cutouts, its worker threads taking the
\* tasks from the executor's queue and finishing them in any order
BatchGetCutouts(n, max_workers) ==
  /\ fetcher.batch.phase = "idle"
  /\ fetcher' = [fetcher EXCEPT !.batch =
                   submit_all([i \in 1..n |-> i], "g", max_workers)]
  /\ CacheUntouched

StartTask(i) ==
  /\ fetcher.batch.phase = "submitted"
  /\ CanStart(fetcher.batch, i)
  /\ fetcher' = [fetcher EXCEPT !.batch.future[i] = "running"]
  /\ CacheUntouched

FinishTask(i, outcome) ==
  LET batch == fetcher.batch
      world == [butler_up |-> fetcher.butler_up, rsp_up |-> fetcher.rsp_up,
                butler |-> outcome.butler, rsp |-> outcome.rsp]
  IN  /\ batch.phase = "submitted"
      /\ batch.future[i] = "running"
      /\ fetcher' = [fetcher EXCEPT
                       !.batch.future[i] = "done",
                       !.batch.record[i] =
                         process_coordinate(fetcher.self, batch.coordinates[i],
                                            batch.band, world)]
      /\ CacheUntouched

Collect(i) ==
  /\ fetcher.batch.phase = "submitted"
  /\ fetcher.batch.future[i] = "done"
  /\ i \notin fetcher.batch.yielded
  /\ fetcher' = [fetcher EXCEPT !.batch = collect(fetcher.batch, i)]
  /\ CacheUntouched

BatchReturn ==
  /\ fetcher.batch.phase = "submitted"
  /\ fetcher.batch.yielded = DOMAIN fetcher.batch.future
  /\ fetcher' = [fetcher EXCEPT !.batch.phase = "returned"]
  /\ CacheUntouched

NextBatch ==
  \/ \E butler_up, rsp_up \in BOOLEAN : Connection(butler_up, rsp_up)
  \/ \E n \in 0..MaxCoords, max_workers \in 1..MaxWorkers :
       BatchGetCutouts(n, max_workers)
  \/ \E i \in DOMAIN fetcher.batch.future : StartTask(i)
  \/ \E i \in DOMAIN fetcher.batch.future, outcome \in BandOutcomes :
       FinishTask(i, outcome)
  \/ \E i \in DOMAIN fetcher.batch.future : Collect(i)
  \/ BatchReturn

SpecBatch == InitFetcher /\ [][NextBatch]_vars

\* SpecMonitor: a ServiceStatusMonitor asked for the status of its services
\* while its clock moves and the services go down and come back
InitMonitor ==
  /\ memory_cache = MemoryCache_init(1)
  /\ disk = [k \in Keys |-> NoFile]
  /\ stats = EnhancedCacheManager_init(1).stats
  /\ now = Epoch
  /\ hist = [op |-> "init", call |-> NoCall, key |-> KeyOf(NoCall),
             ret |-> None, raised |-> FALSE, counted |-> {}, removed |-> FALSE,
             resident |-> FALSE, put |-> NoPut, after |-> NoCall]
  /\ lastPut = [k \in Keys |-> NoPut]
  /\ used = <<>>
  /\ thr = ThrInit(memory_cache)
  /\ fetcher = FetcherInit("data_folder", TRUE)
  /\ \E minutes \in {0, ShortCacheMinutes, DefaultCacheMinutes} :
       monitor = MonitorInit(minutes)
  /\ RestIdle

OnlyMonitor ==
  UNCHANGED <<memory_cache, disk, stats, now, hist, lastPut, used, thr, fetcher,
              retry, pipeline, perf>>

\* time passes between two calls
Tick ==
  /\ monitor.ticks < MaxMonitorTicks
  /\ monitor' = [monitor EXCEPT !.clock = @ + MonitorStep, !.ticks = @ + 1]
  /\ OnlyMonitor

\* a service starts to answer differently
Answer(service, response) ==
  /\ monitor.world[service] # response
  /\ monitor' = [monitor EXCEPT !.world[service] = response]
  /\ OnlyMonitor

GetServiceStatus(service) ==
  LET r == get_service_status(monitor.self, service, monitor.world,
                              monitor.clock)
  IN  /\ monitor' = [monitor EXCEPT
                       !.self = r.self,
                       !.last = [op |-> "get_service_status",
                                 service |-> service,
                                 valid |-> is_cache_valid(monitor.self, service,
                                                          monitor.clock),
                                 entry |-> IF service \in Services
                                           THEN monitor.self.status_cache[service]
                                           ELSE NoEntry,
                                 raised |-> r.raised, probed |-> r.probed,
                                 ret |-> r.ret]]
      /\ OnlyMonitor

NextMonitor ==
  \/ Tick
  \/ \E service \in Services, response \in Responses : Answer(service, response)
  \/ \E service \in Services \cup {"other"} : GetServiceStatus(service)

SpecMonitor == InitMonitor /\ [][NextMonitor]_vars

\* SpecWait: one call of wait_for_service for the TAP service, which goes
\* down and comes back while the call sleeps; the monitor may have been
\* asked for the status before
WaitForService(service, max_wait_minutes, check_interval_seconds) ==
  /\ monitor.wait.pc = "idle"
  /\ monitor' = [monitor EXCEPT !.wait =
                   wait_for_service(service, max_wait_minutes,
                                    check_interval_seconds, monitor.clock)]
  /\ OnlyMonitor

WaitStep ==
  /\ monitor.wait.pc = "loop"
  /\ LET r == wait_step(monitor.self, monitor.wait, monitor.world,
                        monitor.clock)
     IN  monitor' = [monitor EXCEPT !.self = r.self, !.clock = r.t,
                                    !.wait = r.wait]
  /\ OnlyMonitor

NextWait ==
  \/ \E response \in Responses : Answer("tap", response)
  \/ monitor.wait.pc = "idle" /\ GetServiceStatus("tap")
  \/ \E max_wait_minutes \in {ShortWaitMinutes, DefaultWaitMinutes} :
       WaitForService("tap", max_wait_minutes, DefaultCheckInterval)
  \/ WaitStep

SpecWait == InitMonitor /\ [][NextWait]_vars

\* SpecWaitAny: as SpecWait, a max_wait_minutes of 0 included; the call's
\* checks and sleeps return in the end
NextWaitAny ==
  \/ \E response \in Responses : Answer("tap", response)
  \/ monitor.wait.pc = "idle" /\ GetServiceStatus("tap")
  \/ \E max_wait_minutes \in {0, ShortWaitMinutes, DefaultWaitMinutes} :
       WaitForService("tap", max_wait_minutes, DefaultCheckInterval)
  \/ WaitStep

SpecWaitAny == InitMonitor /\ [][NextWaitAny]_vars /\ WF_vars(WaitStep)

(***************************************************************************)
(* The claims.                                                             *)
(***************************************************************************)
Min(a, b) == IF a < b THEN a ELSE b
Elapsed(put) == Truthy(put.ttl) /\ now > put.t + put.ttl
SameArguments(c1, c2) ==
  /\ c1.args = c2.args
  /\ {c1.kwargs[i] : i \in 1..Len(c1.kwargs)} = {c2.kwargs[i] : i \in 1..Len(c2.kwargs)}

\* C1 (SpecKeys): after any sequence of get, put, clear and disk-hit promotions
\* the memory store holds at most max_size entries.
C1_SizeBound == Len(memory_cache.cache) <= memory_cache.max_size

\* a disk hit was promoted into a store that is now full, next to another key
C1_Witness ==
  /\ hist.op = "get" /\ hist.counted = {"disk_hits"}
  /\ Len(memory_cache.cache) = memory_cache.max_size
  /\ memory_cache.max_size > 1

\* C2 (SpecMem): a put of a key that is not in a store holding max_size keys
\* evicts exactly one entry, the one whose latest access (a get that found it,
\* or a put, also a put that overwrote it) is the oldest.
C2_EvictsLeastRecentlyAccessed ==
  [][(/\ hist'.op = "MemoryCache.put"
      /\ Len(memory_cache.cache) = memory_cache.max_size
      /\ ~HasKey(memory_cache.cache, hist'.key))
     => Resident(memory_cache) \ Resident(memory_cache') = {Head(used)}]_vars

\* C3 (Spec): a get right after a put for the same key returns the data put,
\* for every payload, ttl and persist_to_disk and every prior content.
C3_ReadYourWrite ==
  (hist.op = "get" /\ hist.after # NoCall /\ KeyOf(hist.after) = hist.key)
    => (~hist.raised /\ hist.ret = hist.put.data)

\* C4 (Spec): with the file of a put(x, ttl=d, persist_to_disk=true) intact and
\* the key out of the memory store, a get before d has elapsed returns x and
\* counts a disk hit, and the get after it counts a memory hit.
C4_DiskHitThenMemoryHit ==
  [][/\ (/\ hist'.op = "get" /\ ~hist'.resident
         /\ hist'.put.made /\ hist'.put.persist /\ hist'.put.written
         /\ hist'.put.data # None
         /\ Truthy(hist'.put.ttl) /\ now' < hist'.put.t + hist'.put.ttl)
        => (hist'.ret = hist'.put.data /\ hist'.counted = {"disk_hits"})
     /\ (/\ hist.op = "get" /\ "disk_hits" \in hist.counted /\ hist.ret # None
         /\ hist'.op = "get" /\ hist'.key = hist.key)
        => hist'.counted = {"memory_hits"}]_vars

\* C5 (Spec): the disk record written by a put at time t with ttl d has
\* cached_at = t and ttl = t + d, the absolute expiry instant.
C5_DiskRecordFields ==
  \A k \in Keys :
    (lastPut[k].made /\ lastPut[k].written)
      => disk[k] = Pickled(lastPut[k].data, lastPut[k].t,
                           lastPut[k].t + lastPut[k].ttl)

\* C6 (Spec): a value put with ttl d, the only value the tiers hold for its
\* key, is not returned by a get made more than d after the put.
C6_NoExpiredValue ==
  (/\ hist.op = "get" /\ hist.put.made /\ hist.put.solo
   /\ hist.put.data # None /\ Elapsed(hist.put))
    => hist.ret = None

\* C7 (Spec): once the ttl of a put(x, ttl=d, persist_to_disk=true) has elapsed
\* and the key is out of the memory store, a get for the key, its file still
\* the one the put wrote, returns absent and the file is gone.
C7_ExpiredDiskRecordGone ==
  (/\ hist.op = "get" /\ ~hist.resident
   /\ hist.put.made /\ hist.put.persist /\ hist.put.written
   /\ Elapsed(hist.put))
    => (hist.ret = None /\ ~hist.raised /\ disk[hist.key] = NoFile)

C7_Witness ==
  /\ hist.op = "get" /\ ~hist.resident
  /\ hist.put.made /\ hist.put.persist /\ hist.put.written /\ Elapsed(hist.put)
  /\ hist.put.data = "x" /\ hist.removed /\ hist.ret = None /\ disk[hist.key] = NoFile

\* C8 (Spec): the memory entry of a put with ttl d > 0 at time t expires at
\* t + min(d, 3600); the entry of every put expires no later than t + 3600.
C8_MemoryTtlCeiling ==
  hist.op = "put"
    => /\ HasKey(memory_cache.cache, hist.key)
       /\ LET put   == lastPut[hist.key]
              entry == Entry(memory_cache, hist.key)
          IN  /\ put.ttl > 0
                   => entry.expiry = put.t + Min(put.ttl, MemTtlCeiling)
              /\ entry.expiry # Inf
              /\ entry.expiry <= put.t + MemTtlCeiling

\* a put with a ttl above the ceiling, its entry expiring at the ceiling
C8_Witness ==
  /\ hist.op = "put"
  /\ lastPut[hist.key].ttl > MemTtlCeiling
  /\ Entry(memory_cache, hist.key).expiry = now + MemTtlCeiling

\* C9 (SpecKeys): a get whose positional and keyword arguments equal those of
\* the put right before it, the keywords in any order, uses the key of the put
\* and returns the data put.
C9_KwargOrderIrrelevant ==
  (hist.op = "get" /\ hist.after # NoCall /\ SameArguments(hist.after, hist.call))
    => /\ hist.key = KeyOf(hist.after)
       /\ get_cache_key(hist.call.args, hist.call.kwargs)
            = get_cache_key(hist.after.args, hist.after.kwargs)
       /\ hist.ret = hist.put.data

\* put(x, a=1, b=2) then get(b=2, a=1), or the other way round, returned x
C9_Witness ==
  /\ hist.op = "get" /\ hist.after # NoCall /\ hist.after # hist.call
  /\ SameArguments(hist.after, hist.call)
  /\ hist.ret = "x"

\* C10 (Spec): a get for a key that is not in the memory store and whose file
\* does not unpickle returns absent, does not raise and counts a miss.
C10_CorruptRecordIsMiss ==
  (hist.op = "get" /\ ~hist.resident /\ disk[hist.key] = Garbage)
    => (hist.ret = None /\ ~hist.raised /\ hist.counted = {"misses"})

C10_Witness ==
  /\ hist.op = "get" /\ ~hist.resident /\ disk[hist.key] = Garbage
  /\ hist.ret = None /\ hist.counted = {"misses"}

\* C11 (SpecFaults): a put whose disk write fails does not raise and leaves
\* its value in the memory store, and the get right after it returns that value.
C11_FailedWriteKeepsValue ==
  /\ (hist.op = "put" /\ lastPut[hist.key].fault # "ok")
       => /\ ~hist.raised
          /\ HasKey(memory_cache.cache, hist.key)
          /\ Entry(memory_cache, hist.key).value = lastPut[hist.key].data
  /\ (/\ hist.op = "get" /\ hist.after # NoCall /\ KeyOf(hist.after) = hist.key
      /\ hist.put.fault # "ok")
       => (~hist.raised /\ hist.ret = hist.put.data)

\* C12 (SpecFaults): a put whose disk write fails leaves a readable, unexpired
\* disk record of its key as it was.
C12_FailedWriteIsNoOp ==
  [][(/\ hist'.op = "put" /\ lastPut'[hist'.key].fault # "ok"
      /\ IsRecord(disk[hist'.key]) /\ now <= disk[hist'.key].ttl)
     => disk'[hist'.key] = disk[hist'.key]]_vars

\* C13 (SpecOptimize): optimize_cache removes every disk record whose expiry
\* (put time + ttl) has passed and leaves every record whose expiry has not;
\* a get right after it for a key whose record was left returns the record's data.
C13_OptimizePrunesExpired ==
  [][/\ hist'.op = "optimize_cache"
        => \A k \in Keys :
             (lastPut[k].made /\ lastPut[k].written)
               => IF now > lastPut[k].t + lastPut[k].ttl
                  THEN disk'[k] = NoFile
                  ELSE disk'[k] = disk[k]
     /\ (/\ hist.op = "optimize_cache" /\ hist'.op = "get"
         /\ IsRecord(disk[hist'.key]) /\ lastPut[hist'.key].written)
        => hist'.ret = disk[hist'.key].data]_vars

\* C14 (SpecClear): clear_all leaves no file in the cache directory and an
\* empty memory store, and a get for a key that was cached before the
\* clear_all and has not been put since returns absent.
C14_ClearAllEmptiesBothTiers ==
  /\ hist.op = "clear_all"
       => /\ \A k \in Keys : disk[k] = NoFile
          /\ memory_cache.cache = <<>>
  /\ (hist.op = "get" /\ hist.put.cleared) => (hist.ret = None /\ ~hist.raised)

\* a key held in both tiers before the clear_all, then absent
C14_Witness ==
  /\ hist.op = "get" /\ hist.put.cleared /\ hist.ret = None
  /\ hist.counted = {"misses"}
  /\ \E k \in Keys : k # hist.key /\ lastPut[k].made /\ IsRecord(disk[k])

\* C15 (SpecMem): get_stats reports hits and misses that are 0 at construction
\* and after a clear, grow by one with each get that found, respectively did
\* not find, its key and change with nothing else; total_requests is their
\* sum and hit_rate is hits / total_requests, 0 when total_requests is 0.
C15_GetStatsArithmetic ==
  /\ get_stats(memory_cache).hits = 0 /\ get_stats(memory_cache).misses = 0
  /\ [][LET before == get_stats(memory_cache)
            after  == get_stats(memory_cache')
        IN  /\ hist'.op = "MemoryCache.get"
                 => IF hist'.resident
                    THEN after.hits = before.hits + 1 /\ after.misses = before.misses
                    ELSE after.hits = before.hits /\ after.misses = before.misses + 1
            /\ hist'.op = "MemoryCache.put"
                 => after.hits = before.hits /\ after.misses = before.misses
            /\ hist'.op = "MemoryCache.clear"
                 => after.hits = 0 /\ after.misses = 0
            /\ after.total_requests = after.hits + after.misses
            /\ after.hit_rate.den > 0
            /\ IF after.total_requests = 0 THEN after.hit_rate.num = 0
               ELSE after.hit_rate.num * after.total_requests
                      = after.hits * after.hit_rate.den]_vars

\* one get that found its key and one that did not: a hit rate of 1/2
C15_Witness ==
  /\ hist.op = "MemoryCache.get"
  /\ get_stats(memory_cache).hits = 1 /\ get_stats(memory_cache).misses = 1
  /\ get_stats(memory_cache).total_requests = 2
  /\ get_stats(memory_cache).hit_rate = [num |-> 1, den |-> 2]

\* C16 (SpecFaults): a put whose disk write does not fail writes a record for
\* its key if and only if persist_to_disk is true and a ttl was supplied, 0
\* included, and otherwise leaves every file as it was; it always leaves its
\* data in the memory store.
C16_DiskWriteIffPersistAndTtl ==
  [][(hist'.op = "put" /\ lastPut'[hist'.key].fault = "ok")
     => LET k   == hist'.key
            put == lastPut'[k]
        IN  /\ IF put.persist /\ put.ttl # NoTtl
               THEN /\ IsRecord(disk'[k])
                    /\ disk'[k].data = put.data /\ disk'[k].cached_at = put.t
               ELSE disk'[k] = disk[k]
            /\ \A j \in Keys \ {k} : disk'[j] = disk[j]
            /\ HasKey(memory_cache'.cache, k)
            /\ Entry(memory_cache', k).value = put.data]_vars

\* C17 (SpecMem): a MemoryCache.put of a key that is in the store sets that
\* key's value and removes no other entry, also in a full store; a put
\* removes an entry only when its key is not in the store and the store holds
\* max_size entries.
C17_OverwriteRemovesNothing ==
  [][hist'.op = "MemoryCache.put"
     => /\ Entry(memory_cache', hist'.key).key = hist'.key
        /\ hist'.resident => Resident(memory_cache') = Resident(memory_cache)
        /\ Resident(memory_cache) \ Resident(memory_cache') # {}
             => (~hist'.resident
                 /\ Len(memory_cache.cache) = memory_cache.max_size)]_vars

\* C18 (SpecThreads): under every interleaving of the threads' get, put and
\* clear calls the store never holds more than max_size entries, and whenever
\* no thread is inside a call the store and every value returned are those of
\* the calls run one after the other in the order they got the lock, with
\* hits + misses the number of get calls completed since the last clear.
C18_CallsAreAtomic ==
  /\ Len(memory_cache.cache) <= memory_cache.max_size
  /\ thr.lock = Free
       => /\ memory_cache = thr.serial
          /\ memory_cache.hits + memory_cache.misses = thr.completed
          /\ \A t \in Threads : thr.pc[t] = "idle" => thr.ret[t] = thr.sret[t]

\* both threads have completed a get, one a hit and one a miss, after a put
C18_Witness ==
  /\ thr.lock = Free /\ \A t \in Threads : thr.pc[t] = "idle"
  /\ thr.completed = 2 /\ memory_cache.hits = 1 /\ memory_cache.misses = 1
  /\ \E t \in Threads : thr.ret[t] = "x"

\* thread t has returned from a get whose key is that of the put it made
\* right before
PutThenGet(t) ==
  /\ thr.pc[t] = "idle" /\ thr.call[t].op = "get"
  /\ thr.prev[t].op = "put" /\ thr.prev[t].key = thr.call[t].key

C20_CountersResetByClear ==
  [][LET counters(s, mc) == <<s.memory_hits, s.disk_hits, s.misses,
                              mc.hits, mc.misses>>
         before == counters(stats, memory_cache)
         after  == counters(stats', memory_cache')
     IN  /\ hist'.op \in {"get", "put", "optimize_cache"}
              => \A i \in 1..Len(before) : after[i] >= before[i]
         /\ hist'.op \in {"clear_memory", "clear_all"}
              => \A i \in 1..Len(after) : after[i] = 0]_vars

\* the retrievals among the calls a get_cutout made on the clients
Retrievals(calls) ==
  LET IsRetrieval(c) == c \in {"butler.get_cutout", "rsp.cutout_fallback"}
  IN  SelectSeq(calls, IsRetrieval)

\* C21 (SpecFetcher): get_cutout with backend "auto" retrieves from Butler,
\* and from nothing else, when a Butler client exists and its connection test
\* succeeds; otherwise from RSP, and from nothing else, when an RSP client
\* exists and its connection test succeeds; otherwise it raises
\* DataAccessError and has attempted no retrieval.
C21_AutoBackendSelection ==
  LET self  == fetcher.self
      world == fetcher.last.world
      out   == fetcher.last.out
  IN  (fetcher.last.op = "get_cutout" /\ fetcher.last.backend = "auto")
        => IF self.butler_client /\ world.butler_up
           THEN Retrievals(out.calls) = <<"butler.get_cutout">>
           ELSE IF self.rsp_tap_client /\ world.rsp_up
           THEN /\ Retrievals(out.calls) = <<"rsp.cutout_fallback">>
                /\ ~out.raised
           ELSE out.raised /\ Retrievals(out.calls) = <<>>

\* RSP was chosen and gave a cutout
C21_Witness ==
  /\ fetcher.last.op = "get_cutout" /\ fetcher.last.backend = "auto"
  /\ fetcher.self.rsp_tap_client /\ fetcher.last.world.rsp_up
  /\ fetcher.last.out.ret.from = "rsp"

\* C22 (SpecBands): get_multi_band_cutout does not raise; it calls get_cutout
\* for every requested band, in list order; the mapping it returns has the
\* requested bands as its keys; and a band whose (last) retrieval raised is
\* mapped to None while the other bands keep what their retrieval gave.
C22_EveryBandAttempted ==
  LET last == fetcher.last
      out  == last.out
      Range(f) == {f[i] : i \in DOMAIN f}
      \* the position whose result the dict keeps for a band: its last one
      At(band) == CHOOSE i \in 1..Len(last.bands) :
                    /\ last.bands[i] = band
                    /\ \A j \in (i + 1)..Len(last.bands) : last.bands[j] # band
      One(band) == get_cutout(fetcher.self, [coord |-> 1, band |-> band],
                              last.backend, last.worlds[At(band)])
  IN  last.op = "get_multi_band_cutout"
        => /\ ~out.raised
           /\ out.attempts = last.bands
           /\ DOMAIN out.ret = Range(last.bands)
           /\ \A band \in Range(last.bands) :
                out.ret[band] = IF One(band).raised THEN NoCutout
                                ELSE One(band).ret

\* the first band's retrieval raised and the second band got its cutout
C22_Witness ==
  LET last == fetcher.last
  IN  /\ last.op = "get_multi_band_cutout" /\ last.bands = <<"g", "r">>
      /\ get_cutout(fetcher.self, [coord |-> 1, band |-> "g"], last.backend,
                    last.worlds[1]).raised
      /\ last.out.ret["g"] = NoCutout
      /\ last.out.ret["r"] = Cutout("butler", [coord |-> 1, band |-> "r"])

\* C23 (SpecBatch): batch_get_cutouts returns one record per input
\* coordinate, and the i-th record is the one of the i-th coordinate.
C23_ResultsInInputOrder ==
  LET batch == fetcher.batch
  IN  batch.phase = "returned"
        => /\ Len(batch.results) = Len(batch.coordinates)
           /\ \A i \in 1..Len(batch.coordinates) :
                batch.results[i] = batch.record[i]

\* C24 (SpecMonitor): a get_service_status made while the service's cache
\* entry is younger than cache_duration returns the entry's status and
\* message and does not probe the service.
C24_CachedStatusAndMessage ==
  LET last == monitor.last
  IN  (last.op = "get_service_status" /\ last.valid)
        => /\ ~last.probed
           /\ last.ret = <<last.entry.status, Str(last.entry.message)>>

\* C25 (SpecWait): wait_for_service returns True when at one of its checks
\* the service was available, and returns False only when the service was
\* unavailable at every check until the timeout.
C25_WaitSeesAvailableService ==
  LET wait == monitor.wait
  IN  wait.pc = "done" => /\ wait.available => wait.ret
                          /\ ~wait.ret => ~wait.available

\* C26 (SpecCorrupt): a get for a key whose file cannot be unpickled leaves
\* every file as it is, and such a file goes away only by optimize_cache or
\* clear_all.
C26_FailedReadLeavesFile ==
  [][/\ (hist'.op = "get" /\ disk[hist'.key] = Garbage) => disk' = disk
     /\ \A k \in Keys :
          (disk[k] = Garbage /\ disk'[k] = NoFile)
            => hist'.op \in {"optimize_cache", "clear_all"}]_vars

\* a get went to the disk, found the unreadable file and left it, next to the
\* other key's record
C26_Witness ==
  /\ hist.op = "get" /\ ~hist.resident /\ hist.ret = None
  /\ disk[hist.key] = Garbage
  /\ \E k \in Keys : k # hist.key /\ IsRecord(disk[k])

\* C27 (Spec): every get increments exactly one of memory_hits, disk_hits
\* and misses, and nothing else changes them, so the total_requests of
\* get_cache_stats is the number of get calls made.
C27_OneCounterPerGet ==
  [][LET before == get_cache_stats(Self).total_requests
         after  == get_cache_stats([memory_cache |-> memory_cache',
                                    disk |-> disk', stats |-> stats']).total_requests
     IN  IF hist'.op = "get"
         THEN Cardinality(hist'.counted) = 1 /\ after = before + 1
         ELSE after = before]_vars

\* C28 (SpecPromote): a get that is a disk hit puts the value in the memory
\* store with expiry "never", and evicts from a full store the entry whose
\* latest access is the oldest, and nothing from a store with room.
C28_PromotionEvictsLeastRecentlyUsed ==
  [][(hist'.op = "get" /\ hist'.counted = {"disk_hits"} /\ ~hist'.resident)
       => /\ HasKey(memory_cache'.cache, hist'.key)
          /\ Entry(memory_cache', hist'.key).value = hist'.ret
          /\ Entry(memory_cache', hist'.key).expiry = Inf
          /\ Resident(memory_cache) \ Resident(memory_cache')
               = IF Len(memory_cache.cache) = memory_cache.max_size
                 THEN {Head(used)} ELSE {}]_vars

\* C29 (Spec): clear_memory empties the memory store and changes no file, and
\* the get right after it returns the data of a key whose record, written by
\* a put with a ttl that has not elapsed, is intact on disk.
C29_ClearMemoryKeepsDisk ==
  [][/\ hist'.op = "clear_memory"
        => (memory_cache'.cache = <<>> /\ disk' = disk)
     /\ (/\ hist.op = "clear_memory" /\ hist'.op = "get"
         /\ hist'.put.made /\ hist'.put.persist /\ hist'.put.written
         /\ IsRecord(disk[hist'.key])
         /\ Truthy(hist'.put.ttl) /\ now < hist'.put.t + hist'.put.ttl)
        => hist'.ret = hist'.put.data]_vars

C31_StatsSnapshot ==
  \A t \in Threads :
    (thr.pc[t] = "idle" /\ thr.call[t].op = "get_stats")
      => LET snap == thr.snap[t]
         IN  /\ snap.total_requests = snap.hits + snap.misses
             /\ IF snap.total_requests = 0 THEN snap.hit_rate.num = 0
                ELSE snap.hit_rate.num * snap.total_requests
                       = snap.hits * snap.hit_rate.den

\* C32 (SpecCounters): once every thread has returned from its calls,
\* memory_hits + disk_hits + misses is the number of get calls made.
C32_NoLostIncrement ==
  (\A t \in Threads : thr.pc[t] = "idle")
    => stats.memory_hits + stats.disk_hits + stats.misses = thr.completed

\* C33 (SpecWriters): when the threads have returned from their puts for
\* one key, the memory store and the key's file hold the same value.
C33_TiersAgreeAfterPuts ==
  (\A t \in Threads : thr.pc[t] = "idle")
    => \A k \in Keys :
         (HasKey(memory_cache.cache, k) /\ IsRecord(disk[k]))
           => Entry(memory_cache, k).value = disk[k].data

C35_RetryTerminates ==
  /\ [](LET n == retry.calls
            last == retry.outcomes[n]
        IN  /\ n <= retry.max_retries /\ Len(retry.outcomes) = n
            /\ \A i \in 1..Len(retry.slept) : retry.slept[i] = Pow2(i - 1)
            /\ retry.phase = "get" => Len(retry.slept) = n
            /\ retry.phase = "returned"
                 => /\ Len(retry.slept) = IF n = 0 THEN 0 ELSE n - 1
                    /\ \A i \in 1..(n - 1) : retry.outcomes[i] = "other"
                    /\ IF n > 0 /\ last = "ok"
                       THEN retry.ret = retry.dataset_type
                       ELSE /\ retry.ret = None
                            /\ n = 0 => retry.max_retries = 0
                            /\ (n > 0 /\ last = "other") => n = retry.max_retries)
  /\ (retry.phase \in {"get", "sleep"}) ~> (retry.phase = "returned")

\* two attempts failed, each followed by its backoff, and the third succeeded
C35_Witness ==
  /\ retry.phase = "returned" /\ retry.max_retries = 3
  /\ retry.outcomes = <<"other", "other", "ok">>
  /\ retry.slept = <<1, 2>> /\ retry.ret = retry.dataset_type

\* C36 (SpecWaitAny): a call of wait_for_service returns; when it returns
\* False, max_wait_minutes have elapsed since it started, it has checked the
\* service at least once, and it has slept check_interval_seconds after each
\* check.
C36_WaitTerminates ==
  /\ [](LET wait == monitor.wait
        IN  (wait.pc = "done" /\ ~wait.ret)
              => /\ wait.checks >= 1
                 /\ monitor.clock - wait.start_time >= wait.max_wait_seconds
                 /\ monitor.clock - wait.start_time
                      = wait.checks * wait.check_interval_seconds)
  /\ (monitor.wait.pc = "loop") ~> (monitor.wait.pc = "done")

\* C37 (SpecStage): execute does not raise, and the record it returns has the
\* status success, error or skipped, whatever the source type, the client and
\* the input data.
C37_ExecuteNeverRaises ==
  pipeline.last.op = "execute"
    => /\ ~pipeline.last.out.raised
       /\ pipeline.last.out.ret.kind = "dict"
       /\ pipeline.last.out.ret.status \in {"success", "error", "skipped"}

\* C38 (SpecExecutor): execute calls the stages in list order, each once, up
\* to and including the first one that raises; the first stage is given None
\* and every other stage what the stage before it returned; the exception of
\* a stage leaves execute, and execute raises nothing else.
C38_StagesRunInOrder ==
  LET run    == pipeline.run
      stages == run.stages
      Raises(i) == stages[i] = "raises"
      n      == IF \E i \in 1..Len(stages) : Raises(i)
                THEN CHOOSE i \in 1..Len(stages) :
                       Raises(i) /\ \A j \in 1..(i - 1) : ~Raises(j)
                ELSE Len(stages)
  IN  run.phase = "done"
        => /\ Len(run.executed) = n
           /\ \A i \in 1..n :
                /\ run.executed[i].stage = i
                /\ run.executed[i].data
                     = IF i = 1 THEN NoneData ELSE stage_returns(stages[i - 1])
           /\ run.raised <=> (\E i \in 1..Len(stages) : Raises(i))
           /\ run.raised => run.at = n

\* the third of four stages raised after two stages had passed their data on
C38_Witness ==
  /\ pipeline.run.phase = "done" /\ Len(pipeline.run.stages) = 4
  /\ pipeline.run.raised /\ pipeline.run.at = 3
  /\ Len(pipeline.run.executed) = 3
  /\ pipeline.run.executed[3].data = Dict("success")

\* C39 (SpecPerf): get_slow_operations(threshold, limit) returns recorded
\* operations of duration above threshold, successful or failed alike: as many
\* as there are, up to limit, slowest first, and none slower is left out.
C39_SlowOperations ==
  LET out  == perf.last.out
      Slow == {i \in 1..Len(perf.self.metrics) :
                 perf.self.metrics[i].duration > perf.last.threshold}
      Ids  == {out[i].id : i \in 1..Len(out)}
  IN  perf.last.op = "get_slow_operations"
        => /\ Len(out) = Min(perf.last.limit, Cardinality(Slow))
           /\ Cardinality(Ids) = Len(out)
           /\ Ids \subseteq Slow
           /\ \A i \in 1..Len(out) : out[i] = perf.self.metrics[out[i].id]
           /\ \A i \in 1..(Len(out) - 1) : out[i].duration >= out[i + 1].duration
           /\ \A i \in Ids, j \in Slow \ Ids :
                perf.self.metrics[i].duration >= perf.self.metrics[j].duration

=============================================================================
